---- MODULE Spec2Model ----
(***************************************************************************)
(* QsPlot: the data-preparation and alignment pipeline.                    *)
(*                                                                         *)
(*   Spec         the Visualizer (core.py): load_time_series,              *)
(*                prepare_frame, run_static_visualization and the          *)
(*                run_morph_animation loop, with the calls it makes on the *)
(*                renderer and the buffers those calls carry.              *)
(*   SpecImputer  the FastImputer (utils/imputer.py): fit / transform,     *)
(*                and DataProcessor.clean_data (processor.py).             *)
(*   SpecProcessor  DataProcessor (processor.py): reduce_dimensions,       *)
(*                reduce_dimensions_with_info and normalize_positions on   *)
(*                small matrices of rationals.                             *)
(*   SpecFrame    prepare_frame's computation on a non-empty snapshot:     *)
(*                colour column, colour values, reducer input, labels.     *)
(*   SpecWrapper  the QsPlotWrapper (wrapper.py): start, stop and          *)
(*                load_dataset, with the calls forwarded to the renderer.  *)
(*                                                                         *)
(* An optional value (Python's None, a NaN cell, an empty dict) is a       *)
(* sequence of length 0 or 1: None == <<>>, Some(x) == <<x>>.              *)
(***************************************************************************)
EXTENDS Integers, Sequences, FiniteSets, TLC

VARIABLES
    engine,     \* Visualizer.engine: "none" | "basic" | "labels"
    vdf,        \* Visualizer.df: None, or Some(sequence of rows)
    vcfg,       \* Visualizer._date_col/_ticker_col/_feature_cols: None or Some
    rowsUsed,   \* rows passed to load_time_series so far (bounds the model)
    op,         \* the Visualizer call in progress or just finished ("idle": none)
    verr,       \* the exception that call raised ("" when it returned)
    ret,        \* the prepare_frame call just made: its date, method and Frame
    anim,       \* run_morph_animation's loop: start, end, valid_dates, i, method, running
    trace,      \* the iterations of the current run: frames built, calls made
    imp,        \* the FastImputer: strategy, columns, statistics_, attrs
    iout,       \* the outcome of the last FastImputer / clean_data call
    proc,       \* the last DataProcessor / frame computation: inputs and outcome
    wrap        \* the QsPlotWrapper: is_running, the calls made on it and forwarded

vars == <<engine, vdf, vcfg, rowsUsed, op, verr, ret, anim, trace, imp, iout, proc, wrap>>

vizVars == <<engine, vdf, vcfg, rowsUsed, op, verr, ret, anim, trace>>
impVars == <<imp, iout>>

----------------------------------------------------------------------------
(* Bounds *)

MaxRows == 4        \* rows loaded into one Visualizer over its life
MaxLen == 3         \* rows of a dataset handed to the imputer

Dates == {1, 2, 3}          \* timestamps, ordered as the integers
Tickers == {1, 2}           \* entity ids, ordered as the integers
Methods == {"pca"}

----------------------------------------------------------------------------
(* Generic helpers *)

None == <<>>
Some(x) == <<x>>
IsNone(o) == o = <<>>
IsSome(o) == o # <<>>
Get(o) == o[1]

Range(s) == {s[k] : k \in 1..Len(s)}

SetMin(S) == CHOOSE x \in S : \A y \in S : x <= y
SetMax(S) == CHOOSE x \in S : \A y \in S : x >= y

RECURSIVE SortedSeqOf(_)
\* The elements of a finite set of integers, ascending.
SortedSeqOf(S) ==
    IF S = {} THEN <<>>
    ELSE LET m == SetMin(S) IN <<m>> \o SortedSeqOf(S \ {m})

RECURSIVE SeqsUpTo(_, _)
\* Every sequence over S of length at most n.
SeqsUpTo(S, n) ==
    IF n = 0 THEN {<<>>}
    ELSE LET shorter == SeqsUpTo(S, n - 1)
         IN shorter \cup {Append(s, x) : s \in {t \in shorter : Len(t) = n - 1}, x \in S}

RECURSIVE Gcd(_, _)
Gcd(a, b) == IF b = 0 THEN a ELSE Gcd(b, a % b)

RECURSIVE LcmUpTo(_)
\* lcm(1..n): every division by 1..n of a multiple of it is exact.
LcmUpTo(n) == IF n <= 1 THEN 1 ELSE LET l == LcmUpTo(n - 1) IN (l * n) \div Gcd(l, n)

----------------------------------------------------------------------------
(* Numbers: a cell is NaN (None) or Some(v), v an integer counting units   *)
(* of 1/Unit, so that every mean and interpolation of the model is exact.  *)

NaN == None

\* The timestamp of row k of a dataset that carries a DatetimeIndex: the
\* rows are unevenly spaced (1, 2, 4, 5, 7, ...), so that interpolation by
\* time and by row position differ.
TimeOf(k) == k + ((k - 1) \div 2)

Unit == LcmUpTo(IF TimeOf(MaxLen) > MaxRows THEN TimeOf(MaxLen) ELSE MaxRows)

----------------------------------------------------------------------------
(* pandas column primitives. A column is a sequence of cells.              *)

Known(col) == {k \in 1..Len(col) : IsSome(col[k])}

RECURSIVE SumCells(_, _)
SumCells(col, K) ==
    IF K = {} THEN 0
    ELSE LET k == CHOOSE x \in K : TRUE IN Get(col[k]) + SumCells(col, K \ {k})

\* Series.mean(): NaN cells are skipped; the mean of no value is NaN.
ColMean(col) ==
    IF Known(col) = {} THEN NaN
    ELSE Some(SumCells(col, Known(col)) \div Cardinality(Known(col)))

\* Series.median(): NaN cells are skipped; the middle known value, or the
\* mean of the two middle ones; the median of no value is NaN.
ColMedian(col) ==
    IF Known(col) = {} THEN NaN
    ELSE LET n == Cardinality(Known(col))
             \* the j-th smallest known value, duplicates counted
             nth(j) == CHOOSE v \in {Get(col[k]) : k \in Known(col)} :
                          /\ Cardinality({k \in Known(col) : Get(col[k]) < v}) < j
                          /\ Cardinality({k \in Known(col) : Get(col[k]) <= v}) >= j
         IN IF n % 2 = 1 THEN Some(nth((n + 1) \div 2))
            ELSE Some((nth(n \div 2) + nth(n \div 2 + 1)) \div 2)

\* Series.fillna(value): a NaN value fills nothing.
FillNa(col, value) == [k \in 1..Len(col) |-> IF IsSome(col[k]) THEN col[k] ELSE value]

\* ffill that carries a known cell one row forward only (limit=1).
FFillOneRow(col) ==
    [k \in 1..Len(col) |->
        IF IsSome(col[k]) \/ k = 1 THEN col[k] ELSE col[k - 1]]

\* Series.ffill(): the nearest known cell before a NaN; a leading NaN stays.
FFill(col) ==
    [k \in 1..Len(col) |->
        LET before == {j \in Known(col) : j <= k}
        IN IF before = {} THEN NaN ELSE col[SetMax(before)]]

\* bfill taking the last known cell after a NaN instead of the nearest.
BFillFarthest(col) ==
    [k \in 1..Len(col) |->
        LET after == {j \in Known(col) : j >= k}
        IN IF IsSome(col[k]) THEN col[k]
           ELSE IF after = {} THEN NaN ELSE col[SetMax(after)]]

\* Series.bfill(): the nearest known cell after a NaN; a trailing NaN stays.
BFill(col) ==
    [k \in 1..Len(col) |->
        LET after == {j \in Known(col) : j >= k}
        IN IF after = {} THEN NaN ELSE col[SetMin(after)]]

\* Series.interpolate(limit_direction='both') over the abscissae x (np.interp
\* on the known cells): linear between the two known neighbours, the nearest
\* known value before the first and after the last; a column with no known
\* cell is returned as it is.
Interp(col, x) ==
    [k \in 1..Len(col) |->
        LET before == {j \in Known(col) : j <= k}
            after  == {j \in Known(col) : j >= k}
        IN IF Known(col) = {} THEN NaN
           ELSE IF before = {} THEN col[SetMin(after)]
           ELSE IF after = {} THEN col[SetMax(before)]
           ELSE LET a == SetMax(before)
                    b == SetMin(after)
                IN IF a = b THEN col[k]
                   ELSE Some(Get(col[a]) +
                             ((Get(col[b]) - Get(col[a])) * (x[k] - x[a])) \div (x[b] - x[a]))]

\* method='linear': the rows are taken as equally spaced.
RowPos(n) == [k \in 1..n |-> k]
InterpLinear(col) == Interp(col, RowPos(Len(col)))

HasNaN(col) == \E k \in 1..Len(col) : IsNone(col[k])

----------------------------------------------------------------------------
(* DataProcessor.clean_data (processor.py). A DataFrame here is            *)
(* [index: the row labels, cols: its columns, each a sequence of cells].   *)

CleanStrategies == {"mean", "zero", "drop", "ffill", "invalid"}

NRows(df) == Len(df.index)

\* The positions of the rows that hold no NaN (DataFrame.dropna()).
FullRows(df) == {k \in 1..NRows(df) : \A c \in 1..Len(df.cols) : IsSome(df.cols[c][k])}

RECURSIVE Pick(_, _)
\* s restricted to the positions in the ascending sequence idx.
Pick(s, idx) == IF idx = <<>> THEN <<>> ELSE <<s[Head(idx)]>> \o Pick(s, Tail(idx))

DropNa(df) ==
    LET keep == SortedSeqOf(FullRows(df))
    IN [index |-> Pick(df.index, keep),
        cols  |-> [c \in 1..Len(df.cols) |-> Pick(df.cols[c], keep)]]

CleanData(df, strategy) ==
    IF strategy = "mean" THEN
        [err |-> "", df |-> [df EXCEPT !.cols =
            [c \in 1..Len(df.cols) |-> FillNa(df.cols[c], ColMean(df.cols[c]))]]]
    ELSE IF strategy = "zero" THEN
        [err |-> "", df |-> [df EXCEPT !.cols =
            [c \in 1..Len(df.cols) |-> FillNa(df.cols[c], Some(0))]]]
    ELSE IF strategy = "drop" THEN
        [err |-> "", df |-> DropNa(df)]
    ELSE IF strategy = "ffill" THEN
        [err |-> "", df |-> [df EXCEPT !.cols =
            [c \in 1..Len(df.cols) |-> FillNa(FFill(df.cols[c]), Some(0))]]]
    ELSE [err |-> "ValueError: Unknown cleaning strategy", df |-> df]

----------------------------------------------------------------------------
(* The Visualizer's dataset (core.py). A row is                            *)
(* [date, ticker, feats: one cell per feature column].                     *)

FeatureCols == <<"F1", "F2">>
NumFeatures == Len(FeatureCols)

Config == [date_col |-> "Date", ticker_col |-> "Ticker", feature_cols |-> FeatureCols]

\* The feature_cols a caller lists: both feature columns of its rows, or the
\* first only.
FeatureColChoices == {FeatureCols, SubSeq(FeatureCols, 1, 1)}

\* The feature cells of the caller's row for (date, ticker): F1 is missing
\* for some rows, F2 never.
FeatOf(d, t) == <<IF (d + t) % 3 = 0 THEN NaN ELSE Some(t * Unit), Some(d * Unit)>>

InputRows == {[date |-> d, ticker |-> t, feats |-> FeatOf(d, t)] : d \in Dates, t \in Tickers}

RECURSIVE InsertByDate(_, _)
InsertByDate(sorted, r) ==
    IF sorted = <<>> THEN <<r>>
    ELSE IF Head(sorted).date <= r.date THEN <<Head(sorted)>> \o InsertByDate(Tail(sorted), r)
    ELSE <<r>> \o sorted

RECURSIVE SortByDate(_)
\* DataFrame.sort_values(by=date_col): ascending by date. Rows of one date
\* keep their order here; the caller's rows range over every order, so every
\* order of the rows of one date is reached.
SortByDate(rows) ==
    IF rows = <<>> THEN <<>>
    ELSE InsertByDate(SortByDate(SubSeq(rows, 1, Len(rows) - 1)), rows[Len(rows)])

\* self.df[feature_cols] as a DataFrame labelled by row position; the listed
\* columns are the first Len(feature_cols) of a row.
FeatureFrame(rows, feature_cols) ==
    [index |-> [k \in 1..Len(rows) |-> k],
     cols  |-> [c \in 1..Len(feature_cols) |-> [k \in 1..Len(rows) |-> rows[k].feats[c]]]]

\* self.df[feature_cols] = cleaned: the assignment aligns on the row labels,
\* a row whose label the cleaned frame lacks gets NaN in every feature.
AssignFeatures(rows, cleaned) ==
    [k \in 1..Len(rows) |->
        LET at == {j \in 1..Len(cleaned.index) : cleaned.index[j] = k}
        IN [rows[k] EXCEPT !.feats =
               [c \in 1..NumFeatures |->
                   IF c > Len(cleaned.cols) THEN rows[k].feats[c]
                   ELSE IF at = {} THEN NaN
                   ELSE cleaned.cols[c][CHOOSE x \in at : TRUE]]]]

\* Visualizer.load_time_series: what it leaves in (df, settings, exception).
LoadResult(input, feature_cols, strategy) ==
    LET sorted  == SortByDate(input)
        cleaned == CleanData(FeatureFrame(sorted, feature_cols), strategy)
        cfg     == [Config EXCEPT !.feature_cols = feature_cols]
    IN IF cleaned.err # ""
       THEN [df |-> sorted, cfg |-> cfg, err |-> cleaned.err]
       ELSE [df |-> AssignFeatures(sorted, cleaned.df), cfg |-> cfg, err |-> ""]

RECURSIVE Unique(_)
\* Series.unique(): the distinct values in order of first appearance.
Unique(s) ==
    IF s = <<>> THEN <<>>
    ELSE LET u == Unique(SubSeq(s, 1, Len(s) - 1))
         IN IF s[Len(s)] \in Range(u) THEN u ELSE Append(u, s[Len(s)])

\* Visualizer.get_dates
GetDates(df) == IF IsNone(df) THEN <<>> ELSE Unique([k \in 1..Len(Get(df)) |-> Get(df)[k].date])

----------------------------------------------------------------------------
(* numpy arrays. An array is [buf: the buffer that holds its data, rows,   *)
(* cc: C-contiguous, dtype]. A row of a Frame array is the data computed   *)
(* for one snapshot row; the reducers' numerics are opaque, so the row is  *)
(* kept as [date, row, ticker]: the snapshot row it was computed from.     *)

Array(b, rows) == [buf |-> b, rows |-> rows, cc |-> TRUE, dtype |-> "float32"]

\* np.intersect1d: the sorted, unique values that are in both.
Intersect1d(a, b) == SortedSeqOf(Range(a) \cap Range(b))

\* np.isin
IsIn(a, c) == [k \in 1..Len(a) |-> a[k] \in Range(c)]

\* The positions a boolean mask selects, ascending.
MaskIdx(mask) == SortedSeqOf({k \in 1..Len(mask) : mask[k]})

RECURSIVE ArgSortOf(_, _)
ArgSortOf(a, left) ==
    IF left = {} THEN <<>>
    ELSE LET k == CHOOSE x \in left :
                     \A y \in left : a[x] < a[y] \/ (a[x] = a[y] /\ x <= y)
         IN <<k>> \o ArgSortOf(a, left \ {k})

\* np.argsort: the positions of a in ascending order of value (equal values
\* in order of position).
ArgSort(a) == ArgSortOf(a, 1..Len(a))

\* a[mask] and a[idx]: advanced indexing always copies into a new buffer.
Index(arr, idx, b) == [arr EXCEPT !.buf = b, !.rows = Pick(arr.rows, idx), !.cc = TRUE]

\* np.ascontiguousarray(a, dtype=float32): a itself when it already is
\* C-contiguous float32, a copy otherwise.
AsContiguous(arr, b) ==
    IF arr.cc /\ arr.dtype = "float32" THEN arr
    ELSE [arr EXCEPT !.buf = b, !.cc = TRUE, !.dtype = "float32"]

----------------------------------------------------------------------------
(* Visualizer.prepare_frame                                                *)

Snapshot(rows, date) == Pick(rows, SortedSeqOf({k \in 1..Len(rows) : rows[k].date = date}))

\* N * sum(v^2) - sum(v)^2 of feature column c: N^2 times np.var, NaN when a
\* cell is missing.
VarTimesN2(snap, c) ==
    LET col == [k \in 1..Len(snap) |-> snap[k].feats[c]]
        sq  == [k \in 1..Len(snap) |-> Some(Get(col[k]) * Get(col[k]))]
    IN IF HasNaN(col) THEN NaN
       ELSE Some(Len(snap) * SumCells(sq, 1..Len(snap))
                 - SumCells(col, 1..Len(snap)) * SumCells(col, 1..Len(snap)))

\* np.argmax(np.var(X, axis=0)): the first NaN variance if there is one,
\* else the first maximum.
AutoColorIdx(snap) ==
    LET F    == Len(snap[1].feats)
        v(c) == VarTimesN2(snap, c)
        nan  == {c \in 1..F : IsNone(v(c))}
    IN IF nan # {} THEN SetMin(nan)
       ELSE SetMin({c \in 1..F : \A d \in 1..F : Get(v(c)) >= Get(v(d))})

\* _generate_axis_labels on the result of reduce_dimensions_with_info for at
\* most three remaining features (no reduction: a uniform variance share and
\* feature i mod F as the contributor of axis i).
AxisLabels(method, names) ==
    [i \in 1..3 |->
        IF method = "pca" THEN <<"PC", i, 100 \div 3, names[((i - 1) % Len(names)) + 1]>>
        ELSE IF method = "tsne" THEN <<"t-SNE", i>>
        ELSE IF method = "umap" THEN <<"UMAP", i>>
        ELSE <<"Axis", i>>]

\* prepare_frame without the snapshot.empty check.
PrepareFrameNoEmptyCheck(df, cfg, date, method, b) ==
    IF IsNone(df) THEN None
    ELSE LET snap == Snapshot(Get(df), date)
             src  == [k \in 1..Len(snap) |-> [date |-> date, row |-> k, ticker |-> snap[k].ticker]]
         IN Some([positions |-> Array(b + 1, src),
                  values    |-> Array(b + 2, src),
                  tickers   |-> [k \in 1..Len(snap) |-> snap[k].ticker],
                  labels    |-> [color |-> <<"", "(auto)">>, axes |-> AxisLabels(method, <<"">>)]])

\* snapshot[self._feature_cols]: the listed feature columns of the rows.
Listed(snap, feature_cols) ==
    [k \in 1..Len(snap) |-> [snap[k] EXCEPT !.feats = SubSeq(snap[k].feats, 1, Len(feature_cols))]]

\* The exception prepare_frame raises, "" when it returns. With at most
\* NumFeatures listed features no estimator runs (the reducer pads); with one
\* listed feature nothing is left beside the colour column and the padding
\* branch divides by the length of an empty name list.
PrepareFrameError(df, cfg, date, method) ==
    IF IsNone(df) THEN ""
    ELSE IF Snapshot(Get(df), date) = <<>> THEN ""
    ELSE IF Len(Get(cfg).feature_cols) = 1 THEN "ZeroDivisionError"
    ELSE ""

\* The Frame of (date, method) with its arrays in the buffers b+1 and b+2;
\* None is the empty dict (and stands for no value when the call raises).
PrepareFrame(df, cfg, date, method, b) ==
    IF IsNone(df) \/ PrepareFrameError(df, cfg, date, method) # "" THEN None
    ELSE LET cols == Get(cfg).feature_cols
             snap == Listed(Snapshot(Get(df), date), cols)
             src  == [k \in 1..Len(snap) |-> [date |-> date, row |-> k, ticker |-> snap[k].ticker]]
             cidx == AutoColorIdx(snap)
         IN IF snap = <<>> THEN None
            ELSE Some([positions |-> Array(b + 1, src),
                       values    |-> Array(b + 2, src),
                       tickers   |-> [k \in 1..Len(snap) |-> snap[k].ticker],
                       labels    |-> [color |-> <<cols[cidx], "(auto)">>,
                                      axes  |-> AxisLabels(method,
                                          Pick(cols, SortedSeqOf((1..Len(cols)) \ {cidx})))]])

----------------------------------------------------------------------------
(* The renderer calls of one step.                                         *)

SetPointsRaw(p, v) == [fn |-> "set_points_raw", positions |-> p, values |-> v]
SetTargetPoints(p, v) == [fn |-> "set_target_points", positions |-> p, values |-> v]
SetDimensionLabels(l) == [fn |-> "set_dimension_labels", labels |-> l]

\* The labels sent without probing the renderer for the method.
LabelCallsNoProbe(eng, frame) == <<SetDimensionLabels(frame.labels)>>

\* hasattr(self.engine, 'set_dimension_labels')
LabelCalls(eng, frame) == IF eng = "labels" THEN <<SetDimensionLabels(frame.labels)>> ELSE <<>>

\* Align without the argsort: the filtered rows stay in frame order.
AlignUnsorted(frame, common, b) ==
    LET mask  == IsIn(frame.tickers, common)
        pos_f == Index(frame.positions, MaskIdx(mask), b + 1)
        val_f == Index(frame.values, MaskIdx(mask), b + 2)
        keep  == [k \in 1..Len(pos_f.rows) |-> k]
    IN [positions |-> Index(pos_f, keep, b + 3),
        values    |-> Index(val_f, keep, b + 4)]

\* The filtered and sorted arrays of one frame: rows whose ticker is common,
\* in ascending ticker order. Buffers b+1, b+2 hold the filtered arrays,
\* b+3, b+4 the sorted ones.
Align(frame, common, b) ==
    LET mask     == IsIn(frame.tickers, common)
        pos_f    == Index(frame.positions, MaskIdx(mask), b + 1)
        val_f    == Index(frame.values, MaskIdx(mask), b + 2)
        ticks_f  == Pick(frame.tickers, MaskIdx(mask))
        sort_idx == ArgSort(ticks_f)
    IN [positions |-> Index(pos_f, sort_idx, b + 3),
        values    |-> Index(val_f, sort_idx, b + 4)]

\* What the trace keeps of a step that a prepare_frame call ended with an
\* exception: the prepare_frame calls made, the frames returned before it,
\* no renderer call.
Raised(kind, t_curr, t_next, prepared, frames, e) ==
    [kind |-> kind, t_curr |-> t_curr, t_next |-> t_next, prepared |-> prepared,
     err |-> e, frames |-> frames, calls |-> <<>>]

\* The loop body without the "no common tickers" check.
MorphBodyNoSkip(df, cfg, eng, t_curr, t_next, method) ==
    LET e_curr    == PrepareFrameError(df, cfg, t_curr, method)
        e_next    == PrepareFrameError(df, cfg, t_next, method)
        data_curr == PrepareFrame(df, cfg, t_curr, method, 0)
        data_next == PrepareFrame(df, cfg, t_next, method, 2)
        entry(calls) == [kind |-> "morph", t_curr |-> t_curr, t_next |-> t_next,
                         prepared |-> <<t_curr, t_next>>, err |-> "",
                         frames |-> <<data_curr, data_next>>, calls |-> calls]
    IN IF e_curr # "" THEN Raised("morph", t_curr, t_next, <<t_curr>>, <<None, None>>, e_curr)
       ELSE IF e_next # ""
       THEN Raised("morph", t_curr, t_next, <<t_curr, t_next>>, <<data_curr, None>>, e_next)
       ELSE IF IsNone(data_curr) \/ IsNone(data_next) THEN entry(<<>>)
       ELSE LET common == Intersect1d(Get(data_curr).tickers, Get(data_next).tickers)
                curr   == Align(Get(data_curr), common, 4)
                next   == Align(Get(data_next), common, 8)
            IN entry(<<SetPointsRaw(curr.positions, curr.values),
                       SetTargetPoints(next.positions, next.values)>>
                     \o LabelCalls(eng, Get(data_curr)))

\* One iteration of run_morph_animation's loop for the pair (t_curr, t_next).
MorphBody(df, cfg, eng, t_curr, t_next, method) ==
    LET e_curr    == PrepareFrameError(df, cfg, t_curr, method)
        e_next    == PrepareFrameError(df, cfg, t_next, method)
        data_curr == PrepareFrame(df, cfg, t_curr, method, 0)
        data_next == PrepareFrame(df, cfg, t_next, method, 2)
        entry(calls) == [kind |-> "morph", t_curr |-> t_curr, t_next |-> t_next,
                         prepared |-> <<t_curr, t_next>>, err |-> "",
                         frames |-> <<data_curr, data_next>>, calls |-> calls]
    IN IF e_curr # "" THEN Raised("morph", t_curr, t_next, <<t_curr>>, <<None, None>>, e_curr)
       ELSE IF e_next # ""
       THEN Raised("morph", t_curr, t_next, <<t_curr, t_next>>, <<data_curr, None>>, e_next)
       ELSE IF IsNone(data_curr) \/ IsNone(data_next) THEN entry(<<>>)
       ELSE LET common == Intersect1d(Get(data_curr).tickers, Get(data_next).tickers)
                curr   == Align(Get(data_curr), common, 4)
                next   == Align(Get(data_next), common, 8)
                p_c    == AsContiguous(curr.positions, 13)
                v_c    == AsContiguous(curr.values, 14)
                p_n    == AsContiguous(next.positions, 15)
                v_n    == AsContiguous(next.values, 16)
            IN IF Len(common) = 0 THEN entry(<<>>)
               ELSE entry(<<SetPointsRaw(p_c, v_c), SetTargetPoints(p_n, v_n)>>
                          \o LabelCalls(eng, Get(data_curr)))

\* run_static_visualization once the engine and the dates are there.
StaticBody(df, cfg, eng, date, method) ==
    LET dates    == GetDates(df)
        selected == IF IsNone(date) \/ Get(date) \notin Range(dates) THEN dates[1] ELSE Get(date)
        e_data   == PrepareFrameError(df, cfg, selected, method)
        data     == PrepareFrame(df, cfg, selected, method, 0)
        entry(calls) == [kind |-> "static", t_curr |-> selected, t_next |-> selected,
                         prepared |-> <<selected>>, err |-> "",
                         frames |-> <<data>>, calls |-> calls]
    IN IF e_data # "" THEN Raised("static", selected, selected, <<selected>>, <<None>>, e_data)
       ELSE IF IsNone(data) THEN entry(<<>>)
       ELSE LET positions == AsContiguous(Get(data).positions, 3)
                values    == AsContiguous(Get(data).values, 4)
            IN entry(<<SetPointsRaw(positions, values), SetTargetPoints(positions, values)>>
                     \o LabelCalls(eng, Get(data)))

----------------------------------------------------------------------------
(* The Visualizer's operations                                             *)

Idle == [running |-> FALSE, start |-> 0, end |-> 0, valid_dates |-> <<>>, i |-> 0,
         method |-> "pca"]

Inputs == [n \in 0..MaxRows |-> SeqsUpTo(InputRows, n)]

\* No imputer: the object under test is the Visualizer or the DataProcessor.
ImpIdle == [strategy |-> "linear", columns |-> None, statistics |-> None, attrs |-> {},
            given |-> None, fitCalled |-> FALSE, fitted |-> FALSE]

Init ==
    /\ engine \in {"none", "basic", "labels"}
    /\ vdf = None
    /\ vcfg = None
    /\ rowsUsed = 0
    /\ op = "idle"
    /\ verr = ""
    /\ ret = None
    /\ anim = Idle
    /\ trace = <<>>
    /\ imp = ImpIdle
    /\ iout = None
    /\ proc = None
    /\ wrap = None

LoadTimeSeries ==
    /\ op = "idle"
    /\ \E input \in Inputs[MaxRows - rowsUsed], feature_cols \in FeatureColChoices,
          strategy \in CleanStrategies :
          LET r == LoadResult(input, feature_cols, strategy)
          IN /\ vdf' = Some(r.df)
             /\ vcfg' = Some(r.cfg)
             /\ verr' = r.err
             /\ rowsUsed' = rowsUsed + Len(input)
    /\ op' = "load_time_series"
    /\ ret' = None
    /\ trace' = <<>>
    /\ UNCHANGED <<engine, anim, imp, iout, proc, wrap>>

PrepareFrameCall ==
    /\ op = "idle"
    /\ \E date \in Dates, method \in Methods :
          /\ ret' = Some([date |-> date, method |-> method,
                          frame |-> PrepareFrame(vdf, vcfg, date, method, 0)])
          /\ verr' = PrepareFrameError(vdf, vcfg, date, method)
    /\ op' = "prepare_frame"
    /\ trace' = <<>>
    /\ UNCHANGED <<engine, vdf, vcfg, rowsUsed, anim, imp, iout, proc, wrap>>

RunStaticVisualization ==
    /\ op = "idle"
    /\ \E date \in {None} \cup {Some(d) : d \in Dates}, method \in Methods :
          LET body == StaticBody(vdf, vcfg, engine, date, method)
          IN IF engine = "none" \/ GetDates(vdf) = <<>>
             THEN trace' = <<>> /\ verr' = ""
             ELSE trace' = <<body>> /\ verr' = body.err
    /\ op' = "run_static_visualization"
    /\ ret' = None
    /\ UNCHANGED <<engine, vdf, vcfg, rowsUsed, anim, imp, iout, proc, wrap>>

\* The call of run_morph_animation up to the loop: valid_dates is computed.
RunMorphAnimation ==
    /\ op = "idle"
    /\ \E s \in Dates, e \in Dates, method \in Methods :
          LET dates == GetDates(vdf)
              valid == Pick(dates, SortedSeqOf({k \in 1..Len(dates) : s <= dates[k] /\ dates[k] <= e}))
          IN anim' = IF engine = "none" THEN Idle
                     ELSE [running |-> Len(valid) > 1, start |-> s, end |-> e,
                           valid_dates |-> valid, i |-> 0, method |-> method]
    /\ op' = "run_morph_animation"
    /\ verr' = ""
    /\ ret' = None
    /\ trace' = <<>>
    /\ UNCHANGED <<engine, vdf, vcfg, rowsUsed, imp, iout, proc, wrap>>

\* One iteration of the loop (for i in range(len(valid_dates) - 1)), its pacing
\* sleep included; the loop ends after the last pair, or with the exception
\* of a prepare_frame call, which leaves run_morph_animation.
MorphIterate ==
    /\ anim.running
    /\ LET body == MorphBody(vdf, vcfg, engine, anim.valid_dates[anim.i + 1],
                             anim.valid_dates[anim.i + 2], anim.method)
       IN /\ trace' = Append(trace, body)
          /\ verr' = body.err
          /\ anim' = [anim EXCEPT !.i = anim.i + 1,
                                  !.running = body.err = ""
                                              /\ anim.i + 2 < Len(anim.valid_dates)]
    /\ UNCHANGED <<engine, vdf, vcfg, rowsUsed, op, ret, imp, iout, proc, wrap>>

\* The call has returned (or raised) and the caller goes on to its next call:
\* what the model recorded about the finished call is dropped.
CallerContinues ==
    /\ op # "idle"
    /\ ~anim.running
    /\ op' = "idle"
    /\ verr' = ""
    /\ ret' = None
    /\ anim' = Idle
    /\ trace' = <<>>
    /\ UNCHANGED <<engine, vdf, vcfg, rowsUsed, imp, iout, proc, wrap>>

Next ==
    \/ CallerContinues
    \/ LoadTimeSeries
    \/ PrepareFrameCall
    \/ RunStaticVisualization
    \/ RunMorphAnimation
    \/ MorphIterate

Spec == Init /\ [][Next]_vars

----------------------------------------------------------------------------
(* Properties of the Visualizer (checked under Spec)                       *)

\* The entity ids behind the rows of an array handed to the renderer.
SentIds(arr) == [k \in 1..Len(arr.rows) |-> arr.rows[k].ticker]
\* The timestamp of the Frame the rows of an array were taken from.
SentDates(arr) == {arr.rows[k].date : k \in 1..Len(arr.rows)}

UniqueIds(ticks) == Cardinality(Range(ticks)) = Len(ticks)

MorphEntries == {k \in 1..Len(trace) : trace[k].kind = "morph"}
BothFrames(e) == IsSome(e.frames[1]) /\ IsSome(e.frames[2])
CurrIds(e) == Get(e.frames[1]).tickers
NextIds(e) == Get(e.frames[2]).tickers
CommonIds(e) == Range(CurrIds(e)) \cap Range(NextIds(e))

\* C1: for two non-empty frames whose ids are unique within each frame and
\* whose id sets intersect, the rows sent as the current arrays are rows of
\* the current frame, the rows sent as the target arrays are rows of the next
\* frame, and the ids behind both are exactly the common ids in ascending
\* order (so row i of both belongs to the same entity).
C1_AlignedByEntity ==
    \A k \in MorphEntries :
        LET e == trace[k]
        IN (/\ BothFrames(e)
            /\ UniqueIds(CurrIds(e)) /\ UniqueIds(NextIds(e))
            /\ CommonIds(e) # {})
           => /\ Len(e.calls) >= 2
              /\ e.calls[1].fn = "set_points_raw"
              /\ e.calls[2].fn = "set_target_points"
              /\ SentIds(e.calls[1].positions) = SortedSeqOf(CommonIds(e))
              /\ SentIds(e.calls[1].values) = SortedSeqOf(CommonIds(e))
              /\ SentIds(e.calls[2].positions) = SortedSeqOf(CommonIds(e))
              /\ SentIds(e.calls[2].values) = SortedSeqOf(CommonIds(e))
              /\ SentDates(e.calls[1].positions) \cup SentDates(e.calls[1].values) = {e.t_curr}
              /\ SentDates(e.calls[2].positions) \cup SentDates(e.calls[2].values) = {e.t_next}

\* Two frames with unique ids, two common ids, one id that only the next
\* frame has, and the current frame not in ascending id order.
C1_Witness ==
    \E k \in MorphEntries :
        LET e == trace[k]
        IN /\ BothFrames(e)
           /\ UniqueIds(CurrIds(e)) /\ UniqueIds(NextIds(e))
           /\ Cardinality(CommonIds(e)) >= 2
           /\ CurrIds(e) # SortedSeqOf(Range(CurrIds(e)))
           /\ CurrIds(e) # NextIds(e)
           /\ Len(e.calls) >= 2

\* C2: in every animation step that reaches the renderer, the four arrays
\* handed over have the same number of rows M, and M <= min(N_current, N_next).
C2_EqualRowCounts ==
    \A k \in MorphEntries :
        LET e == trace[k]
        IN e.calls # <<>> =>
              LET m == Len(e.calls[1].positions.rows)
              IN /\ Len(e.calls[1].values.rows) = m
                 /\ Len(e.calls[2].positions.rows) = m
                 /\ Len(e.calls[2].values.rows) = m
                 /\ m <= Len(CurrIds(e))
                 /\ m <= Len(NextIds(e))

\* The iteration counter equals the number of iterations done, and the loop
\* is running exactly while a pair is left and no iteration has raised.
LoopInStep ==
    op = "run_morph_animation" =>
        /\ Len(trace) = anim.i
        /\ anim.running = (verr = "" /\ anim.i + 1 < Len(anim.valid_dates))
        /\ verr = (IF trace = <<>> THEN "" ELSE trace[Len(trace)].err)
        /\ \A k \in 1..(Len(trace) - 1) : trace[k].err = ""

\* C3: a step whose two frames have no entity id in common raises nothing,
\* makes no renderer call, and the loop goes on to the next pair.
C3_NoCommonIdsSkips ==
    /\ LoopInStep
    /\ \A k \in MorphEntries :
          LET e == trace[k]
          IN (BothFrames(e) /\ CommonIds(e) = {}) => (e.calls = <<>> /\ e.err = "")

\* A skipped first pair followed by a second pair that reached the renderer.
C3_Witness ==
    /\ Len(trace) >= 2
    /\ BothFrames(trace[1]) /\ CommonIds(trace[1]) = {}
    /\ trace[2].calls # <<>>

DatesOf(df) == Range(GetDates(df))

\* C4: prepare_frame for a timestamp that matches no row (or before any load)
\* returns the empty Frame and raises nothing; the loop body, run on any pair
\* of timestamps of which one has no row and for which both prepare_frame
\* calls return, makes no renderer call, and the loop goes on.
C4_EmptyFrame ==
    /\ (op = "prepare_frame" /\ Get(ret).date \notin DatesOf(vdf))
          => (IsNone(Get(ret).frame) /\ verr = "")
    /\ LoopInStep
    /\ \A t1 \in Dates, t2 \in Dates, m \in Methods :
          LET e == MorphBody(vdf, vcfg, engine, t1, t2, m)
          IN (e.err = "" /\ (t1 \notin DatesOf(vdf) \/ t2 \notin DatesOf(vdf)))
                => (~BothFrames(e) /\ e.calls = <<>>)

\* prepare_frame was called on a loaded, non-empty dataset with a timestamp
\* that none of its rows has.
C4_Witness ==
    /\ op = "prepare_frame"
    /\ IsSome(vdf) /\ Get(vdf) # <<>>
    /\ Get(ret).date \notin DatesOf(vdf)
    /\ IsNone(Get(ret).frame)

\* Every array occurrence handed to the renderer in the current run.
SentArrays ==
    {<<k, c, f>> \in (1..Len(trace)) \X (1..2) \X {"positions", "values"} :
        Len(trace[k].calls) >= 2}
BufOf(x) == trace[x[1]].calls[x[2]][x[3]].buf
\* The buffers of the Frame arrays prepare_frame returned in the current run.
FrameBuffers ==
    UNION {{Get(trace[k].frames[j]).positions.buf, Get(trace[k].frames[j]).values.buf} :
              <<k, j>> \in {y \in (1..Len(trace)) \X (1..2) :
                              y[2] <= Len(trace[y[1]].frames) /\ IsSome(trace[y[1]].frames[y[2]])}}

\* C5: every array handed to the renderer is a fresh buffer: it is the buffer
\* of no Frame array and of no other array handed to the renderer.
C5_FreshBuffers ==
    /\ \A x \in SentArrays : BufOf(x) \notin FrameBuffers
    /\ \A x \in SentArrays, y \in SentArrays : x # y => BufOf(x) # BufOf(y)

\* C8: a load_time_series call that raises leaves the stored dataset and the
\* column settings as they were before the call.
C8_FailedLoadHasNoEffect ==
    [][(op' = "load_time_series" /\ verr' # "") => (vdf' = vdf /\ vcfg' = vcfg)]_vars

----------------------------------------------------------------------------
(* FastImputer (utils/imputer.py). A dataset is                            *)
(* [index: "range" or "time" (a DatetimeIndex, row k at TimeOf(k)),        *)
(*  buf: the object that holds it (0: the caller's, 1: a copy),            *)
(*  names: its column names in order, dtype: per column "num" or "obj",    *)
(*  data: per column a sequence of cells].                                 *)

ImpStrategies == {"linear", "time", "ffill", "bfill", "mean", "median", "zero", "invalid"}
ValidStrategies == {"linear", "time", "ffill", "bfill", "mean", "median", "zero"}

\* The constructor's columns argument.
GivenColumns == {None, Some(<<"A">>), Some(<<"A", "B">>)}

Shapes == {<<"A">>, <<"A", "B">>, <<"A", "S">>, <<"B">>}
DTypeOf(name) == IF name = "S" THEN "obj" ELSE "num"

NumCells == {NaN, Some(Unit), Some(2 * Unit)}

Reverse(col) == [k \in 1..Len(col) |-> col[Len(col) + 1 - k]]

\* The dataset of a shape around a free numeric column: the first numeric
\* column holds it, a second numeric column holds it reversed, the object
\* column "S" holds strings with its first cell missing.
Dataset(index, shape, col) ==
    [buf   |-> 0,
     index |-> index,
     names |-> shape,
     dtype |-> [c \in Range(shape) |-> DTypeOf(c)],
     data  |-> [c \in Range(shape) |->
                   IF c = "S" THEN [k \in 1..Len(col) |-> IF k = 1 THEN NaN ELSE Some("x")]
                   ELSE IF c = shape[1] THEN col
                   ELSE Reverse(col)]]

ImpInputs ==
    {Dataset(index, shape, col) :
        index \in {"range", "time"}, shape \in Shapes, col \in SeqsUpTo(NumCells, MaxLen)}

Rows(X) == Len(X.data[X.names[1]])

\* X.select_dtypes(include=[np.number]).columns.tolist()
NumericColumns(X) == Pick(X.names, SortedSeqOf({k \in 1..Len(X.names) : X.dtype[X.names[k]] = "num"}))

\* FastImputer.__init__: statistics_ is set (to None) by the constructor.
NewImputer(strategy, columns) ==
    [strategy |-> strategy, columns |-> columns, statistics |-> None,
     attrs |-> {"strategy", "columns", "statistics_"},
     given |-> columns, fitCalled |-> FALSE, fitted |-> FALSE]

\* X[self.columns].mean() / .median() / pd.Series(0, index=self.columns)
Statistics(strategy, columns, X) ==
    [c \in Range(columns) |->
        IF strategy = "mean" THEN ColMean(X.data[c])
        ELSE IF strategy = "median" THEN ColMedian(X.data[c])
        ELSE Some(0)]

\* fit resolving the columns before it validates the strategy.
FitResolvesFirst(im, X) ==
    LET called  == [im EXCEPT !.fitCalled = TRUE,
                              !.columns = IF IsNone(im.columns) THEN Some(NumericColumns(X))
                                          ELSE im.columns]
        columns == Get(called.columns)
        missing == IF IsNone(im.columns) THEN {} ELSE Range(columns) \ Range(X.names)
    IN IF im.strategy \notin ValidStrategies
       THEN [err |-> "ValueError: Unknown strategy", missing |-> {}, imp |-> called]
       ELSE IF missing # {}
       THEN [err |-> "ValueError: Columns not found", missing |-> missing, imp |-> called]
       ELSE [err |-> "", missing |-> {},
             imp |-> [called EXCEPT !.statistics = Some(Statistics(im.strategy, columns, X)),
                                    !.fitted = TRUE]]

\* FastImputer.fit: the exception it raises ("" when it returns), the column
\* names the exception lists, and the imputer it leaves.
FitOutcome(im, X) ==
    LET called == [im EXCEPT !.fitCalled = TRUE]
    IN IF im.strategy \notin ValidStrategies
       THEN [err |-> "ValueError: Unknown strategy", missing |-> {}, imp |-> called]
       ELSE LET columns == IF IsNone(im.columns) THEN NumericColumns(X) ELSE Get(im.columns)
                missing == IF IsNone(im.columns) THEN {} ELSE Range(columns) \ Range(X.names)
            IN IF missing # {}
               THEN [err |-> "ValueError: Columns not found", missing |-> missing, imp |-> called]
               ELSE [err |-> "", missing |-> {},
                     imp |-> [called EXCEPT !.columns = Some(columns),
                                            !.statistics = Some(Statistics(im.strategy, columns, X)),
                                            !.fitted = TRUE]]

\* sklearn's check_is_fitted(self, 'statistics_'): hasattr(self, 'statistics_').
CheckIsFitted(im) == "statistics_" \in im.attrs

Times(n) == [k \in 1..n |-> TimeOf(k)]

\* X_transformed[target_cols] = f(X_transformed[target_cols]), column by column.
\* filled maps each target column to its new cells.
Assign(X, cols, filled) ==
    [X EXCEPT !.data = [c \in Range(X.names) |->
        IF c \in Range(cols) THEN filled[c] ELSE X.data[c]]]

\* X_transformed[target_cols] can be read: the imputer has columns and the
\* dataset holds each of them.
Readable(im, X) == IsSome(im.columns) /\ Range(Get(im.columns)) \subseteq Range(X.names)

TransformFail(e, w) == [err |-> e, warned |-> w, result |-> None]
TransformDone(Y, w) == [err |-> "", warned |-> w, result |-> Some(Y)]

\* The branch for strategy 'linear'.
LinearBranch(im, X) ==
    LET linear == [c \in Range(Get(im.columns)) |-> InterpLinear(X.data[c])]
    IN IF ~Readable(im, X) THEN TransformFail("KeyError", FALSE)
       ELSE TransformDone(Assign(X, Get(im.columns), linear), FALSE)

\* The 'time' branch without the DatetimeIndex test: it interpolates by the
\* row times whatever the index is.
TimeBranchNoFallback(im, X) ==
    LET bytime == [c \in Range(Get(im.columns)) |-> Interp(X.data[c], Times(Rows(X)))]
    IN IF ~Readable(im, X) THEN TransformFail("KeyError", FALSE)
       ELSE TransformDone(Assign(X, Get(im.columns), bytime), FALSE)

\* The branch for strategy 'time': without a DatetimeIndex it warns and
\* interpolates as 'linear' does.
TimeBranch(im, X) ==
    LET linear == [c \in Range(Get(im.columns)) |-> InterpLinear(X.data[c])]
        bytime == [c \in Range(Get(im.columns)) |-> Interp(X.data[c], Times(Rows(X)))]
    IN IF X.index # "time"
       THEN IF ~Readable(im, X) THEN TransformFail("KeyError", TRUE)
            ELSE TransformDone(Assign(X, Get(im.columns), linear), TRUE)
       ELSE IF ~Readable(im, X) THEN TransformFail("KeyError", FALSE)
            ELSE TransformDone(Assign(X, Get(im.columns), bytime), FALSE)

\* The mean/median branch filling with the statistic of the dataset being
\* transformed.
StatBranchOwnStatistic(im, X) ==
    LET own  == Statistics(im.strategy, Get(im.columns), X)
        stat == [c \in Range(Get(im.columns)) |-> FillNa(X.data[c], own[c])]
    IN IF ~Readable(im, X) THEN TransformFail("KeyError", FALSE)
       ELSE IF IsNone(im.statistics)
            THEN TransformFail("ValueError: Must specify a fill value", FALSE)
       ELSE TransformDone(Assign(X, Get(im.columns), stat), FALSE)

\* The branches for 'mean' and 'median': fillna(self.statistics_).
StatBranch(im, X) ==
    LET stat == [c \in Range(Get(im.columns)) |-> FillNa(X.data[c], Get(im.statistics)[c])]
    IN IF ~Readable(im, X) THEN TransformFail("KeyError", FALSE)
       ELSE IF IsNone(im.statistics)
            THEN TransformFail("ValueError: Must specify a fill value", FALSE)
       ELSE TransformDone(Assign(X, Get(im.columns), stat), FALSE)

\* transform working on the caller's dataset itself.
XNoCopy(X) == X

\* X.copy(): a new dataset with the same content.
XCopy(X) == [X EXCEPT !.buf = 1]

\* The caller's dataset after a transform that returned r: written to when
\* the returned dataset is the caller's own object.
CallerAfter(X, r) ==
    IF IsSome(r.result) /\ Get(r.result).buf = X.buf THEN Get(r.result) ELSE X

\* FastImputer.transform: the exception it raises ("" when it returns), whether
\* it warned, and the dataset it returns.
TransformOutcome(im, X) ==
    LET Xt    == XCopy(X)
        cols  == Get(im.columns)
        ffill == [c \in Range(cols) |-> FFill(Xt.data[c])]
        bfill == [c \in Range(cols) |-> BFill(Xt.data[c])]
        zero  == [c \in Range(cols) |-> FillNa(Xt.data[c], Some(0))]
    IN IF ~CheckIsFitted(im) THEN TransformFail("NotFittedError", FALSE)
       ELSE IF im.strategy = "linear" THEN LinearBranch(im, Xt)
       ELSE IF im.strategy = "time" THEN TimeBranch(im, Xt)
       ELSE IF im.strategy = "ffill" THEN
            IF ~Readable(im, Xt) THEN TransformFail("KeyError", FALSE)
            ELSE TransformDone(Assign(Xt, cols, ffill), FALSE)
       ELSE IF im.strategy = "bfill" THEN
            IF ~Readable(im, Xt) THEN TransformFail("KeyError", FALSE)
            ELSE TransformDone(Assign(Xt, cols, bfill), FALSE)
       ELSE IF im.strategy \in {"mean", "median"} THEN StatBranch(im, Xt)
       ELSE IF im.strategy = "zero" THEN
            IF ~Readable(im, Xt) THEN TransformFail("KeyError", FALSE)
            ELSE TransformDone(Assign(Xt, cols, zero), FALSE)
       ELSE TransformDone(Xt, FALSE)

\* DataProcessor.clean_data on a dataset whose columns are all numeric.
ToFrame(X) == [index |-> [k \in 1..Rows(X) |-> k],
               cols  |-> [c \in 1..Len(X.names) |-> X.data[X.names[c]]]]

----------------------------------------------------------------------------
(* The imputer's operations                                                *)

InitImputer ==
    /\ engine = "none"
    /\ vdf = None
    /\ vcfg = None
    /\ rowsUsed = 0
    /\ op = "idle"
    /\ verr = ""
    /\ ret = None
    /\ anim = Idle
    /\ trace = <<>>
    /\ imp \in {ImpIdle} \cup
                {NewImputer(st, columns) : st \in ImpStrategies, columns \in GivenColumns}
    /\ iout = None
    /\ proc = None
    /\ wrap = None

Fit ==
    /\ imp # ImpIdle
    /\ IsNone(iout)
    /\ \E X \in ImpInputs :
          LET r == FitOutcome(imp, X)
          IN /\ imp' = r.imp
             /\ iout' = Some([op |-> "fit", input |-> X, err |-> r.err, missing |-> r.missing,
                              warned |-> FALSE, result |-> None])
    /\ UNCHANGED <<vizVars, proc, wrap>>

Transform ==
    /\ imp # ImpIdle
    /\ IsNone(iout)
    /\ \E X \in ImpInputs :
          LET r == TransformOutcome(imp, X)
          IN iout' = Some([op |-> "transform", input |-> X, err |-> r.err, missing |-> {},
                           warned |-> r.warned, result |-> r.result,
                           caller |-> CallerAfter(X, r)])
    /\ UNCHANGED <<imp, vizVars, proc, wrap>>

CleanDataCall ==
    /\ imp = ImpIdle
    /\ IsNone(iout)
    /\ \E X \in {Y \in ImpInputs : Y.index = "range" /\ \A c \in Range(Y.names) : Y.dtype[c] = "num"},
          strategy \in CleanStrategies :
          LET r == CleanData(ToFrame(X), strategy)
          IN iout' = Some([op |-> "clean_data", input |-> X, err |-> r.err, missing |-> {},
                           warned |-> FALSE, strategy |-> strategy,
                           result |-> IF r.err = "" THEN Some(r.df) ELSE None])
    /\ UNCHANGED <<imp, vizVars, proc, wrap>>

\* The call has returned (or raised); the caller drops what it got.
ImputerCallerContinues ==
    /\ IsSome(iout)
    /\ iout' = None
    /\ UNCHANGED <<imp, vizVars, proc, wrap>>

NextImputer ==
    \/ Fit
    \/ Transform
    \/ CleanDataCall
    \/ ImputerCallerContinues

SpecImputer == InitImputer /\ [][NextImputer]_vars

----------------------------------------------------------------------------
(* Properties of the imputer and of clean_data (checked under SpecImputer) *)

Out == Get(iout)
After(name) == IsSome(iout) /\ Out.op = name

\* C6: transform on an imputer on which fit was never called fails with a
\* "not fitted" error and returns no dataset.
C6_UnfittedTransformFails ==
    (After("transform") /\ ~imp.fitCalled)
        => (Out.err = "NotFittedError" /\ IsNone(Out.result))

\* A step that is a call of fit.
FitStep == IsNone(iout) /\ IsSome(iout') /\ Get(iout').op = "fit"

\* C7: fit raises when the strategy is not a known one and when a column name
\* given to the constructor is absent from the dataset (naming the absent
\* columns); a fit that raises leaves columns and statistics as they were.
C7_FitRejectsWithoutEffect ==
    [][FitStep =>
          LET o == Get(iout')
              absent == IF IsNone(imp.given) THEN {}
                        ELSE Range(Get(imp.given)) \ Range(o.input.names)
          IN /\ imp.strategy \notin ValidStrategies => o.err = "ValueError: Unknown strategy"
             /\ (imp.strategy \in ValidStrategies /\ absent # {})
                   => (o.err = "ValueError: Columns not found" /\ o.missing = absent)
             /\ o.err # "" => (imp'.columns = imp.columns /\ imp'.statistics = imp.statistics)
    ]_vars

\* A fit that raised for an absent column on an imputer an earlier fit had
\* fitted.
C7_Witness ==
    /\ After("fit")
    /\ Out.err = "ValueError: Columns not found"
    /\ Out.missing = {"B"}
    /\ imp.fitted
    /\ IsSome(imp.statistics)

\* The target columns of the last call: the fitted columns of the imputer,
\* every column for clean_data.
TargetColumns == IF Out.op = "clean_data" THEN Range(Out.input.names) ELSE Range(Get(imp.columns))
ResultColumn(c) ==
    IF Out.op = "clean_data"
    THEN Get(Out.result).cols[CHOOSE k \in 1..Len(Out.input.names) : Out.input.names[k] = c]
    ELSE Get(Out.result).data[c]
StrategyUsed == IF Out.op = "clean_data" THEN Out.strategy ELSE imp.strategy
AllMissing(col) == Known(col) = {}

C10_TimeFallsBackToLinear ==
    (After("transform") /\ imp.fitted /\ imp.strategy = "time" /\ Out.input.index # "time")
        => LET lin == TransformOutcome([imp EXCEPT !.strategy = "linear"], Out.input)
           IN /\ Out.warned
              /\ Out.err = lin.err
              /\ Out.result = lin.result
              /\ Range(Get(imp.columns)) \subseteq Range(Out.input.names) => Out.err = ""

\* A fitted time imputer filled a gap between two known values of a dataset
\* without a DatetimeIndex, with a value interpolation by time would not give.
C10_Witness ==
    /\ After("transform") /\ imp.fitted /\ imp.strategy = "time"
    /\ Out.input.index = "range"
    /\ Out.err = "" /\ Out.warned
    /\ "A" \in Range(Get(imp.columns))
    /\ "A" \in Range(Out.input.names)
    /\ Out.input.data["A"] = <<Some(Unit), NaN, Some(2 * Unit)>>
    /\ Get(Out.result).data["A"] # Interp(Out.input.data["A"], Times(3))

\* The columns transform works on, and the others.
Targets == IF IsSome(imp.columns) THEN Range(Get(imp.columns)) ELSE {}
Returned == After("transform") /\ Out.err = ""

\* C11: the dataset transform returns has the rows and columns of its input,
\* every column outside the target columns has the values (missing ones
\* included) and the type it has in the input, and the caller's dataset is
\* as it was before the call.
C11_NonTargetsPassThrough ==
    Returned =>
        LET Y == Get(Out.result)
        IN /\ Y.names = Out.input.names
           /\ Y.index = Out.input.index
           /\ \A c \in Range(Y.names) : Len(Y.data[c]) = Rows(Out.input)
           /\ \A c \in Range(Y.names) \ Targets :
                 Y.data[c] = Out.input.data[c] /\ Y.dtype[c] = Out.input.dtype[c]
           /\ Out.caller = Out.input

\* Column A was filled while the object column S, not a target, kept its
\* missing first cell.
C11_Witness ==
    /\ Returned /\ imp.fitted
    /\ Out.input.names = <<"A", "S">>
    /\ Targets = {"A"}
    /\ Get(Out.result).data["A"] # Out.input.data["A"]
    /\ IsNone(Get(Out.result).data["S"][1])
    /\ Rows(Out.input) = MaxLen

\* m is the median of the known cells of col: the middle one of an odd
\* number, the mean of the two middle ones of an even number.
IsMedianOf(m, col) ==
    LET n       == Cardinality(Known(col))
        below(v) == Cardinality({k \in Known(col) : Get(col[k]) < v})
        above(v) == Cardinality({k \in Known(col) : Get(col[k]) > v})
        vals    == {Get(col[k]) : k \in Known(col)}
    IN IF n = 0 THEN IsNone(m)
       ELSE /\ IsSome(m)
            /\ \E a \in vals, b \in vals :
                  /\ a <= b /\ 2 * Get(m) = a + b
                  /\ 2 * below(a) < n /\ 2 * above(b) < n
                  /\ (n % 2 = 1) => a = b
                  /\ (n % 2 = 0) => (2 * (below(a) + Cardinality({k \in Known(col) : Get(col[k]) = a})) >= n
                                     /\ 2 * (above(b) + Cardinality({k \in Known(col) : Get(col[k]) = b})) >= n)

\* A step that is a call of transform.
TransformStep == IsNone(iout) /\ IsSome(iout') /\ Get(iout').op = "transform"

\* C12: in a target column of a fitted imputer, ffill gives a missing cell
\* with a known cell before it the nearest such cell, bfill a missing cell
\* with a known cell after it the nearest such cell, zero gives every missing
\* cell 0, median gives every missing cell the fitted median, which fit set
\* to the median of the column's known cells; a known cell is never changed.
C12_FillValues ==
    [][/\ (FitStep /\ Get(iout').err = "" /\ imp.strategy = "median")
          => \A c \in Range(Get(imp'.columns)) :
                IsMedianOf(Get(imp'.statistics)[c], Get(iout').input.data[c])
       /\ (TransformStep /\ Get(iout').err = "" /\ imp.fitted)
          => \A c \in Range(Get(imp.columns)) :
                LET in  == Get(iout').input.data[c]
                    out == Get(Get(iout').result).data[c]
                IN \A k \in 1..Len(in) :
                     /\ IsSome(in[k]) => out[k] = in[k]
                     /\ (IsNone(in[k]) /\ imp.strategy = "ffill")
                           => \A j \in 1..(k - 1) :
                                 (IsSome(in[j]) /\ \A i \in (j + 1)..k : IsNone(in[i]))
                                     => out[k] = in[j]
                     /\ (IsNone(in[k]) /\ imp.strategy = "bfill")
                           => \A j \in (k + 1)..Len(in) :
                                 (IsSome(in[j]) /\ \A i \in k..(j - 1) : IsNone(in[i]))
                                     => out[k] = in[j]
                     /\ (IsNone(in[k]) /\ imp.strategy = "zero") => out[k] = Some(0)
                     /\ (IsNone(in[k]) /\ imp.strategy = "median")
                           => out[k] = Get(imp.statistics)[c]
    ]_vars

\* A median imputer filled the gap of <<1, NaN, 2>> with 1.5.
C12_Witness ==
    /\ Returned /\ imp.fitted /\ imp.strategy = "median"
    /\ "A" \in Targets /\ "A" \in Range(Out.input.names)
    /\ Out.input.data["A"] = <<Some(Unit), NaN, Some(2 * Unit)>>
    /\ Get(imp.statistics)["A"] = Some((3 * Unit) \div 2)
    /\ Get(Out.result).data["A"] = <<Some(Unit), Some((3 * Unit) \div 2), Some(2 * Unit)>>

\* m is the mean of the known cells of col (missing when there is none).
IsMeanOf(m, col) ==
    IF Known(col) = {} THEN IsNone(m)
    ELSE IsSome(m) /\ Cardinality(Known(col)) * Get(m) = SumCells(col, Known(col))

\* C13: under mean and median, fit stores per target column the statistic of
\* the known cells of the fit dataset; only a fit changes the stored
\* statistics or columns; a transform of any dataset gives every missing
\* cell of a target column the stored statistic.
C13_FittedStatisticReused ==
    [][/\ (FitStep /\ Get(iout').err = "" /\ imp.strategy = "mean")
          => \A c \in Range(Get(imp'.columns)) :
                IsMeanOf(Get(imp'.statistics)[c], Get(iout').input.data[c])
       /\ (FitStep /\ Get(iout').err = "" /\ imp.strategy = "median")
          => \A c \in Range(Get(imp'.columns)) :
                IsMedianOf(Get(imp'.statistics)[c], Get(iout').input.data[c])
       /\ (imp'.statistics # imp.statistics \/ imp'.columns # imp.columns) => FitStep
       /\ (TransformStep /\ Get(iout').err = "" /\ imp.fitted /\ imp.strategy \in {"mean", "median"})
          => \A c \in Range(Get(imp.columns)) :
                LET in  == Get(iout').input.data[c]
                    out == Get(Get(iout').result).data[c]
                IN \A k \in 1..Len(in) : IsNone(in[k]) => out[k] = Get(imp.statistics)[c]
    ]_vars

\* A mean imputer fitted to a column of mean 1 filled the gap of <<2, NaN>>,
\* whose own mean is 2, with 1.
C13_Witness ==
    /\ Returned /\ imp.fitted /\ imp.strategy = "mean"
    /\ "A" \in Targets /\ "A" \in Range(Out.input.names)
    /\ Get(imp.statistics)["A"] = Some(Unit)
    /\ Out.input.data["A"] = <<Some(2 * Unit), NaN>>
    /\ Get(Out.result).data["A"] = <<Some(2 * Unit), Some(Unit)>>

----------------------------------------------------------------------------
(* Numbers of the processor: NaN, or Some(<<n, d>>), the fraction n/d in   *)
(* lowest terms with d > 0. NaN propagates through the arithmetic and      *)
(* every comparison with NaN is false, as in numpy.                        *)

Abs(v) == IF v < 0 THEN -v ELSE v

Q(n, d) == LET g == Gcd(Abs(n), d) IN Some(<<n \div g, d \div g>>)
QInt(v) == Q(v, 1)
Num(a) == Get(a)[1]
Den(a) == Get(a)[2]

QAdd(a, b) == IF IsNone(a) \/ IsNone(b) THEN NaN
              ELSE Q(Num(a) * Den(b) + Num(b) * Den(a), Den(a) * Den(b))
QSub(a, b) == IF IsNone(a) \/ IsNone(b) THEN NaN
              ELSE Q(Num(a) * Den(b) - Num(b) * Den(a), Den(a) * Den(b))
QMul(a, b) == IF IsNone(a) \/ IsNone(b) THEN NaN
              ELSE Q(Num(a) * Num(b), Den(a) * Den(b))
\* a / b for b # 0 (the code divides only behind a test for b > 0).
QDiv(a, b) == IF IsNone(a) \/ IsNone(b) \/ Num(b) = 0 THEN NaN
              ELSE IF Num(b) > 0 THEN Q(Num(a) * Den(b), Den(a) * Num(b))
              ELSE Q(-(Num(a) * Den(b)), -(Den(a) * Num(b)))
QAbs(a) == IF IsNone(a) THEN NaN ELSE Q(Abs(Num(a)), Den(a))
QLess(a, b) == IsSome(a) /\ IsSome(b) /\ Num(a) * Den(b) < Num(b) * Den(a)

RECURSIVE QSum(_)
QSum(s) == IF s = <<>> THEN QInt(0) ELSE QAdd(s[1], QSum(Tail(s)))

\* np.max / np.min of a non-empty sequence: NaN when a cell is NaN.
QMax(s) == IF \E k \in 1..Len(s) : IsNone(s[k]) THEN NaN
           ELSE s[CHOOSE k \in 1..Len(s) : \A j \in 1..Len(s) : ~QLess(s[k], s[j])]
QMin(s) == IF \E k \in 1..Len(s) : IsNone(s[k]) THEN NaN
           ELSE s[CHOOSE k \in 1..Len(s) : \A j \in 1..Len(s) : ~QLess(s[j], s[k])]

----------------------------------------------------------------------------
(* Matrices of the processor (processor.py). A dense matrix is             *)
(* [kind: "dense", n: rows, f: columns, rows: its n rows of f cells]; the  *)
(* output of a fitted estimator is opaque: [kind: "embedding", n, f, est:  *)
(* the estimator, of: the matrix it was fitted to].                        *)

Dense(n, f, rows) == [kind |-> "dense", n |-> n, f |-> f, rows |-> rows]
Column(m, c) == [r \in 1..m.n |-> m.rows[r][c]]
Cells(m) == {m.rows[r][c] : r \in 1..m.n, c \in 1..m.f}
Embedding(est, k, data) == [kind |-> "embedding", n |-> data.n, f |-> k, est |-> est, of |-> data]

ReduceFail(e) == [err |-> e, result |-> None]
ReduceDone(r) == [err |-> "", result |-> Some(r)]

\* Padding that puts the zero columns in front of the data.
PadFront(data, k) ==
    Dense(data.n, k, [r \in 1..data.n |->
        [c \in 1..k |-> IF c <= k - data.f THEN QInt(0) ELSE data.rows[r][c - (k - data.f)]]])

\* positions = np.zeros((N, k)); positions[:, :F] = data
Pad(data, k) ==
    Dense(data.n, k, [r \in 1..data.n |->
        [c \in 1..k |-> IF c <= data.f THEN data.rows[r][c] ELSE QInt(0)]])

\* The branch taken when the data has no more columns than asked for: no
\* estimator runs, whatever the method.
PaddedBranch(data, k, names) ==
    IF Len(names) = 0 THEN ReduceFail("ZeroDivisionError")
    ELSE ReduceDone([positions |-> IF data.f = k THEN data ELSE Pad(data, k),
                     explained_variance_ratios |->
                         Some([i \in 1..k |-> [fitted |-> FALSE, v |-> Q(1, k)]]),
                     top_features_per_axis |->
                         Some([i \in 1..k |->
                                  [fitted |-> FALSE, v |-> <<names[((i - 1) % Len(names)) + 1]>>]])])

\* An estimator's fit_transform validates its input: a NaN cell is rejected.
\* PCA needs at least k rows; accepts stands for what t-SNE and UMAP ask of
\* the number of rows (perplexity, neighbours), which the installed version
\* decides.
PcaFits(data, k) == NaN \notin Cells(data) /\ data.n >= k
ManifoldFits(data, accepts) == NaN \notin Cells(data) /\ accepts

\* The 'pca' branch: positions, variance ratios and top features of the
\* fitted PCA. What the fit computes is opaque (fitted: TRUE); the padded
\* branch's values are exact (fitted: FALSE).
PcaBranch(data, k, names) ==
    IF ~PcaFits(data, k) THEN ReduceFail("ValueError")
    ELSE ReduceDone([positions |-> Embedding("PCA", k, data),
                     explained_variance_ratios |->
                         Some([i \in 1..k |->
                                  [fitted |-> TRUE, v |-> <<"explained_variance_ratio_", i, data>>]]),
                     top_features_per_axis |->
                         Some([i \in 1..k |->
                                  [fitted |-> TRUE, v |-> <<"top_features", i, data, names>>]]),
                     top_loadings_per_axis |->
                         Some([i \in 1..k |->
                                  [fitted |-> TRUE, v |-> <<"top_loadings", i, data>>]])])

\* The 'tsne' branch and the 'umap' branch with umap installed.
ManifoldBranch(est, data, k, accepts) ==
    IF ~ManifoldFits(data, accepts) THEN ReduceFail("ValueError")
    ELSE ReduceDone([positions |-> Embedding(est, k, data),
                     explained_variance_ratios |-> None,
                     top_features_per_axis |-> None])

RECURSIVE ReduceDimensionsWithInfo(_, _, _, _, _, _)

\* The 'umap' branch raising when umap is not installed.
UmapBranchNoFallback(data, k, names, has_umap, accepts) ==
    IF ~has_umap THEN ReduceFail("ImportError")
    ELSE ManifoldBranch("UMAP", data, k, accepts)

\* The 'umap' branch: without umap it warns and calls the function again
\* with method 'pca'.
UmapBranch(data, k, names, has_umap, accepts) ==
    IF ~has_umap THEN ReduceDimensionsWithInfo(data, "pca", k, Some(names), has_umap, accepts)
    ELSE ManifoldBranch("UMAP", data, k, accepts)

\* DataProcessor.reduce_dimensions_with_info: the exception it raises ("" when
\* it returns) and the dict it returns.
ReduceDimensionsWithInfo(data, method, k, feature_names, has_umap, accepts) ==
    LET names == IF IsNone(feature_names) THEN [i \in 1..data.f |-> <<"feat_", i - 1>>]
                 ELSE Get(feature_names)
    IN IF data.f <= k THEN PaddedBranch(data, k, names)
       ELSE IF method = "pca" THEN PcaBranch(data, k, names)
       ELSE IF method = "tsne" THEN ManifoldBranch("TSNE", data, k, accepts)
       ELSE IF method = "umap" THEN UmapBranch(data, k, names, has_umap, accepts)
       ELSE ReduceFail("ValueError: Unknown reduction method")

\* DataProcessor.reduce_dimensions: the positions of the same call.
ReduceDimensions(data, method, k, has_umap, accepts) ==
    LET r == ReduceDimensionsWithInfo(data, method, k, None, has_umap, accepts)
    IN IF r.err # "" THEN r ELSE ReduceDone(Get(r.result).positions)

\* The cells of a dense matrix, row by row.
Flat(m) == [i \in 1..(m.n * m.f) |-> m.rows[((i - 1) \div m.f) + 1][((i - 1) % m.f) + 1]]

\* normalize_positions without the centering step.
NormalizeNoCentering(data, scale) ==
    IF data.kind # "dense"
    THEN ReduceDone([kind |-> "normalized", n |-> data.n, f |-> data.f,
                     scale |-> scale, of |-> data])
    ELSE IF data.n * data.f = 0 THEN ReduceFail("ValueError")
    ELSE LET max_val == QMax([i \in 1..(data.n * data.f) |-> QAbs(Flat(data)[i])])
             scaled  == [r \in 1..data.n |-> [c \in 1..data.f |->
                            IF QLess(QInt(0), max_val) THEN QDiv(data.rows[r][c], max_val)
                            ELSE data.rows[r][c]]]
         IN ReduceDone(Dense(data.n, data.f,
                [r \in 1..data.n |-> [c \in 1..data.f |-> QMul(scaled[r][c], QInt(scale))]]))

\* DataProcessor.normalize_positions: the exception it raises ("" when it
\* returns) and the matrix it returns. np.max of a matrix without cells
\* raises ValueError; the output for an estimator's positions is opaque.
NormalizePositions(data, scale) ==
    IF data.kind # "dense"
    THEN ReduceDone([kind |-> "normalized", n |-> data.n, f |-> data.f,
                     scale |-> scale, of |-> data])
    ELSE IF data.n * data.f = 0 THEN ReduceFail("ValueError")
    ELSE LET mean     == [c \in 1..data.f |-> QDiv(QSum(Column(data, c)), QInt(data.n))]
             centered == Dense(data.n, data.f,
                            [r \in 1..data.n |-> [c \in 1..data.f |->
                                QSub(data.rows[r][c], mean[c])]])
             max_val  == QMax([i \in 1..(data.n * data.f) |-> QAbs(Flat(centered)[i])])
             scaled   == [r \in 1..data.n |-> [c \in 1..data.f |->
                            IF QLess(QInt(0), max_val) THEN QDiv(centered.rows[r][c], max_val)
                            ELSE centered.rows[r][c]]]
         IN ReduceDone(Dense(data.n, data.f,
                [r \in 1..data.n |-> [c \in 1..data.f |-> QMul(scaled[r][c], QInt(scale))]]))

----------------------------------------------------------------------------
(* The processor's operations                                              *)

MaxPoints == 3          \* rows of a matrix handed to the processor
MaxFeatures == 4        \* columns of a matrix handed to reduce_dimensions

AllFeatureNames == <<"F1", "F2", "F3", "F4", "F5", "F6">>
FeatureNames(f) == SubSeq(AllFeatureNames, 1, f)

\* The rows a matrix handed to reduce_dimensions is made of.
ReduceRows(f) == {[c \in 1..f |-> QInt(0)], [c \in 1..f |-> QInt(c)], [c \in 1..f |-> QInt(f - c)]}
ReduceMatrices ==
    UNION {{Dense(n, f, rows) : rows \in [1..n -> ReduceRows(f)]} :
              n \in 1..MaxPoints, f \in 0..MaxFeatures}

MethodNames == {"pca", "tsne", "umap", "isomap"}
Components == {1, 2, 3}

\* The matrices handed to normalize_positions: at most 2 * MaxPoints cells.
NormCells == {QInt(-1), QInt(0), QInt(2)}
NormMatrices ==
    UNION {{Dense(nf[1], nf[2], rows) : rows \in [1..nf[1] -> [1..nf[2] -> NormCells]]} :
              nf \in {x \in (1..MaxPoints) \X (1..3) : x[1] * x[2] <= 2 * MaxPoints}}
Scales == {1, 10}

\* HAS_UMAP is fixed when the module is imported.
InitProcessor ==
    /\ engine = "none"
    /\ vdf = None
    /\ vcfg = None
    /\ rowsUsed = 0
    /\ op = "idle"
    /\ verr = ""
    /\ ret = None
    /\ anim = Idle
    /\ trace = <<>>
    /\ imp = ImpIdle
    /\ iout = None
    /\ proc \in {[has_umap |-> b, call |-> None] : b \in BOOLEAN}
    /\ wrap = None

ReduceDimensionsWithInfoCall ==
    /\ IsNone(proc.call)
    /\ \E data \in ReduceMatrices, method \in MethodNames, k \in Components,
          given \in BOOLEAN, accepts \in BOOLEAN :
          LET names == IF given THEN Some(FeatureNames(data.f)) ELSE None
              r == ReduceDimensionsWithInfo(data, method, k, names, proc.has_umap, accepts)
          IN proc' = [proc EXCEPT !.call =
                 Some([op |-> "reduce_dimensions_with_info", data |-> data, method |-> method,
                       k |-> k, names |-> names, accepts |-> accepts, scale |-> 0,
                       err |-> r.err, result |-> r.result])]
    /\ UNCHANGED <<vizVars, imp, iout, wrap>>

ReduceDimensionsCall ==
    /\ IsNone(proc.call)
    /\ \E data \in ReduceMatrices, method \in MethodNames, k \in Components, accepts \in BOOLEAN :
          LET r == ReduceDimensions(data, method, k, proc.has_umap, accepts)
          IN proc' = [proc EXCEPT !.call =
                 Some([op |-> "reduce_dimensions", data |-> data, method |-> method,
                       k |-> k, names |-> None, accepts |-> accepts, scale |-> 0,
                       err |-> r.err, result |-> r.result])]
    /\ UNCHANGED <<vizVars, imp, iout, wrap>>

NormalizePositionsCall ==
    /\ IsNone(proc.call)
    /\ \E data \in NormMatrices, scale \in Scales :
          LET r == NormalizePositions(data, scale)
          IN proc' = [proc EXCEPT !.call =
                 Some([op |-> "normalize_positions", data |-> data, method |-> "",
                       k |-> 0, names |-> None, accepts |-> FALSE, scale |-> scale,
                       err |-> r.err, result |-> r.result])]
    /\ UNCHANGED <<vizVars, imp, iout, wrap>>

\* The call has returned (or raised); the caller drops what it got.
ProcessorCallerContinues ==
    /\ IsSome(proc.call)
    /\ proc' = [proc EXCEPT !.call = None]
    /\ UNCHANGED <<vizVars, imp, iout, wrap>>

NextProcessor ==
    \/ ReduceDimensionsWithInfoCall
    \/ ReduceDimensionsCall
    \/ NormalizePositionsCall
    \/ ProcessorCallerContinues

SpecProcessor == InitProcessor /\ [][NextProcessor]_vars

----------------------------------------------------------------------------
(* Properties of the processor (checked under SpecProcessor)               *)

Call == Get(proc.call)
Reduced == IsSome(proc.call) /\ Call.op \in {"reduce_dimensions", "reduce_dimensions_with_info"}
PositionsOf(c) == IF c.op = "reduce_dimensions" THEN Get(c.result) ELSE Get(c.result).positions

\* C14: reduce_dimensions on N rows of F columns, 1 <= F <= n_components,
\* returns N rows of n_components columns that hold the input in the first F
\* columns and exactly zero in the others (the input itself when F equals
\* n_components), whatever the method.
C14_NoReductionPadsWithZeros ==
    (Reduced /\ Call.data.f >= 1 /\ Call.data.f <= Call.k)
        => /\ Call.err = ""
           /\ LET pos == PositionsOf(Call)
              IN /\ pos.kind = "dense" /\ pos.n = Call.data.n /\ pos.f = Call.k
                 /\ Len(pos.rows) = Call.data.n
                 /\ \A r \in 1..pos.n :
                       /\ Len(pos.rows[r]) = Call.k
                       /\ \A c \in 1..Call.k :
                             pos.rows[r][c] = IF c <= Call.data.f THEN Call.data.rows[r][c]
                                              ELSE Some(<<0, 1>>)
                 /\ Call.data.f = Call.k => pos = Call.data

\* Two columns were padded to three.
C14_Witness ==
    /\ Reduced /\ Call.err = ""
    /\ Call.data.f = 2 /\ Call.k = 3 /\ Call.data.n = MaxPoints
    /\ \A r \in 1..MaxPoints : Call.data.rows[r] = <<Some(<<1, 1>>), Some(<<2, 1>>)>>
    /\ PositionsOf(Call).rows[1] = <<Some(<<1, 1>>), Some(<<2, 1>>), Some(<<0, 1>>)>>

\* C15: reduce with a method name other than pca, tsne and umap raises and
\* returns nothing, for every matrix and every n_components.
C15_UnknownMethodRaises ==
    (Reduced /\ Call.method \notin {"pca", "tsne", "umap"})
        => (Call.err # "" /\ IsNone(Call.result))

\* C16: a result of reduce under tsne, or under umap with umap installed, has
\* neither variance ratios nor top features.
C16_NoVarianceForManifolds ==
    (/\ IsSome(proc.call) /\ Call.op = "reduce_dimensions_with_info" /\ Call.err = ""
     /\ (Call.method = "tsne" \/ (Call.method = "umap" /\ proc.has_umap)))
        => /\ IsNone(Get(Call.result).explained_variance_ratios)
           /\ IsNone(Get(Call.result).top_features_per_axis)

\* C17: without umap installed, reduce under umap has the outcome reduce
\* under pca has for the same matrix, n_components and feature names: the
\* same result, and no exception that pca does not raise.
C17_UmapFallsBackToPca ==
    (Reduced /\ Call.method = "umap" /\ ~proc.has_umap)
        => LET pca == IF Call.op = "reduce_dimensions"
                      THEN ReduceDimensions(Call.data, "pca", Call.k, proc.has_umap, Call.accepts)
                      ELSE ReduceDimensionsWithInfo(Call.data, "pca", Call.k, Call.names,
                                                    proc.has_umap, Call.accepts)
           IN /\ Call.err = pca.err
              /\ Call.result = pca.result
              /\ Call.err # "ImportError"

\* Without umap, a umap call on four columns returned the positions and the
\* variance ratios of a fitted PCA.
C17_Witness ==
    /\ IsSome(proc.call) /\ Call.op = "reduce_dimensions_with_info"
    /\ Call.method = "umap" /\ ~proc.has_umap
    /\ Call.data.f = 4 /\ Call.k = 3 /\ Call.err = ""
    /\ Get(Call.result).positions.est = "PCA"
    /\ IsSome(Get(Call.result).explained_variance_ratios)

Normalized == IsSome(proc.call) /\ Call.op = "normalize_positions"

\* C18: when the rows of the input are not all the same, the largest
\* absolute coordinate of normalize_positions' output is scale and every
\* column of the output sums to zero; when they are all the same (a single
\* row included) the output is all zeros.
C18_NormalizeBounds ==
    Normalized =>
        /\ Call.err = ""
        /\ LET out   == Get(Call.result)
               cells == [i \in 1..(out.n * out.f) |-> QAbs(Flat(out)[i])]
           IN /\ out.n = Call.data.n /\ out.f = Call.data.f
              /\ IF \E r \in 1..Call.data.n : Call.data.rows[r] # Call.data.rows[1]
                 THEN /\ \E i \in 1..Len(cells) : cells[i] = QInt(Call.scale)
                      /\ \A i \in 1..Len(cells) : ~QLess(QInt(Call.scale), cells[i])
                      /\ \A c \in 1..out.f : QSum(Column(out, c)) = QInt(0)
                 ELSE \A i \in 1..Len(cells) : Flat(out)[i] = QInt(0)

\* The column -1, 0, 2 (mean 1/3, largest deviation 5/3) became -8, -2, 10.
C18_Witness ==
    /\ Normalized /\ Call.scale = 10
    /\ Call.data = Dense(3, 1, <<<<QInt(-1)>>, <<QInt(0)>>, <<QInt(2)>>>>)
    /\ Get(Call.result).rows = <<<<QInt(-8)>>, <<QInt(-2)>>, <<QInt(10)>>>>

----------------------------------------------------------------------------
(* The computation of prepare_frame on a non-empty snapshot (core.py       *)
(* 98-163). color_feature is None, a name or an integer (type "none",      *)
(* "str", "int"); column indices count from 1 here.                        *)

ColorNone == [type |-> "none", name |-> "", index |-> 0]
ColorName(name) == [type |-> "str", name |-> name, index |-> 0]
ColorIndex(i) == [type |-> "int", name |-> "", index |-> i]

IndexOf(seq, x) == SetMin({k \in 1..Len(seq) : seq[k] = x})

\* The colour resolution taking an integer as it is, without the modulo.
ResolveColorNoModulo(snap, feature_cols, color_feature) ==
    IF color_feature.type = "none"
    THEN LET i == AutoColorIdx(snap) IN [idx |-> i, label |-> <<feature_cols[i], "(auto)">>]
    ELSE IF color_feature.type = "str"
    THEN IF color_feature.name \in Range(feature_cols)
         THEN [idx |-> IndexOf(feature_cols, color_feature.name),
               label |-> <<color_feature.name, "">>]
         ELSE [idx |-> 1, label |-> <<feature_cols[1], "(fallback)">>]
    ELSE LET i == IF color_feature.index + 1 \in 1..Len(feature_cols)
                  THEN color_feature.index + 1 ELSE 1
         IN [idx |-> i, label |-> <<feature_cols[i], "">>]

\* Step 3 of prepare_frame: color_idx and color_label. A label is
\* <<feature name, suffix>>.
ResolveColor(snap, feature_cols, color_feature) ==
    IF color_feature.type = "none"
    THEN LET i == AutoColorIdx(snap) IN [idx |-> i, label |-> <<feature_cols[i], "(auto)">>]
    ELSE IF color_feature.type = "str"
    THEN IF color_feature.name \in Range(feature_cols)
         THEN [idx |-> IndexOf(feature_cols, color_feature.name),
               label |-> <<color_feature.name, "">>]
         ELSE [idx |-> 1, label |-> <<feature_cols[1], "(fallback)">>]
    ELSE LET i == (color_feature.index % Len(feature_cols)) + 1
         IN [idx |-> i, label |-> <<feature_cols[i], "">>]

\* The colour values: min-max scaling, zeros when max > min is false (a
\* constant column, or a NaN in it, which makes min and max NaN).
ColorValues(col) ==
    LET v_min == QMin(col)
        v_max == QMax(col)
    IN IF QLess(v_min, v_max)
       THEN [k \in 1..Len(col) |-> QDiv(QSub(col[k], v_min), QSub(v_max, v_min))]
       ELSE [k \in 1..Len(col) |-> QInt(0)]

ToQ(cell) == IF IsNone(cell) THEN NaN ELSE QInt(Get(cell))

\* X = snapshot[self._feature_cols].values
FeatureMatrix(snap) ==
    Dense(Len(snap), Len(snap[1].feats),
          [r \in 1..Len(snap) |-> [c \in 1..Len(snap[1].feats) |-> ToQ(snap[r].feats[c])]])

\* Step 4: X[:, feature_mask] and the names left, the colour column excluded.
Without(seq, idx) == [c \in 1..(Len(seq) - 1) |-> IF c < idx THEN seq[c] ELSE seq[c + 1]]
\* A mask that excludes the last column whatever the colour index is.
MaskLast(X, idx) == Dense(X.n, X.f - 1, [r \in 1..X.n |-> Without(X.rows[r], X.f)])
MaskColor(X, idx) == Dense(X.n, X.f - 1, [r \in 1..X.n |-> Without(X.rows[r], idx)])

\* ", ".join(names)
RECURSIVE JoinNames(_)
JoinNames(names) ==
    IF Len(names) = 0 THEN ""
    ELSE IF Len(names) = 1 THEN names[1]
    ELSE names[1] \o ", " \o JoinNames(Tail(names))

\* seq[:2]
FirstTwo(seq) == SubSeq(seq, 1, IF Len(seq) < 2 THEN Len(seq) ELSE 2)

\* int(ev * 100): towards zero.
IntPercent(ev) ==
    IF Num(ev) < 0 THEN 0 - ((100 * (0 - Num(ev))) \div Den(ev))
    ELSE (100 * Num(ev)) \div Den(ev)

\* The feature text of a label cut after 20 characters, ellipsis added.
ShortenAt20(feat_str) ==
    IF Len(feat_str) > 20 THEN SubSeq(feat_str, 1, 20) \o "..." ELSE feat_str

\* if len(feat_str) > 20: feat_str = feat_str[:17] + "..."
Shorten(feat_str) ==
    IF Len(feat_str) > 20 THEN SubSeq(feat_str, 1, 17) \o "..." ELSE feat_str

\* One label of the loop of _generate_axis_labels, for the pca case given
\* the text of the features.
AxisLabel(method, i, pct, feat_str) ==
    IF method = "pca"
    THEN "PC" \o ToString(i) \o " (" \o ToString(pct) \o "%) -> " \o feat_str
    ELSE IF method = "tsne" THEN "t-SNE " \o ToString(i)
    ELSE IF method = "umap" THEN "UMAP " \o ToString(i)
    ELSE "Axis " \o ToString(i)

\* _generate_axis_labels: the exception it raises ("" when it returns) and
\* the three labels. explained_var holds numbers and top_features lists of
\* names; int() of a NaN ratio raises ValueError.
GenerateAxisLabels(method, explained_var, top_features) ==
    LET hybrid == method = "pca" /\ IsSome(explained_var) /\ IsSome(top_features)
    IN IF hybrid /\ \E i \in 1..3 : IsNone(Get(explained_var)[i])
       THEN ReduceFail("ValueError")
       ELSE ReduceDone(
              [i \in 1..3 |->
                  IF hybrid
                  THEN AxisLabel("pca", i, IntPercent(Get(explained_var)[i]),
                                 Shorten(JoinNames(FirstTwo(Get(top_features)[i]))))
                  ELSE AxisLabel(IF method = "pca" THEN "" ELSE method, i, 0, "")])

FrameFail(e) == [err |-> e, frame |-> None]

\* What a fitted PCA reports, which the model does not compute: ratios, its
\* explained_variance_ratio_, and order, for each component the argsort of
\* its absolute loadings, largest first.
ExplainedVar(info, fit) ==
    IF IsNone(info.explained_variance_ratios) THEN None
    ELSE LET ev == Get(info.explained_variance_ratios)
         IN Some([i \in 1..Len(ev) |-> IF ev[i].fitted THEN fit.ratios[i] ELSE ev[i].v])

\* top_names = [feature_names[idx] for idx in top_indices], top_indices the
\* first three of the order.
TopFeatures(info, fit, names) ==
    IF IsNone(info.top_features_per_axis) THEN None
    ELSE LET tf == Get(info.top_features_per_axis)
         IN Some([i \in 1..Len(tf) |->
                     IF tf[i].fitted THEN [j \in 1..3 |-> names[fit.order[i][j]]]
                     ELSE tf[i].v])

\* prepare_frame from step 2 on, for the non-empty snapshot snap: the
\* exception it raises ("" when it returns) and the Frame, with the colour
\* index and what was handed to the reducer kept beside it.
FrameData(snap, feature_cols, method, k, color_feature, has_umap, accepts, fit) ==
    LET X       == FeatureMatrix(snap)
        color   == ResolveColor(snap, feature_cols, color_feature)
        values  == ColorValues(Column(X, color.idx))
        X_pca   == MaskColor(X, color.idx)
        names   == Without(feature_cols, color.idx)
        reduced == ReduceDimensionsWithInfo(X_pca, method, k, Some(names), has_umap, accepts)
    IN IF reduced.err # "" THEN FrameFail(reduced.err)
       ELSE LET info == Get(reduced.result)
                norm == NormalizePositions(info.positions, 10)
                axis_labels == GenerateAxisLabels(method, ExplainedVar(info, fit),
                                                  TopFeatures(info, fit, names))
            IN IF norm.err # "" THEN FrameFail(norm.err)
               ELSE IF axis_labels.err # "" THEN FrameFail(axis_labels.err)
               ELSE [err |-> "",
                     frame |-> Some(
                        [positions   |-> [dtype |-> "float32", data |-> Get(norm.result)],
                         values      |-> [dtype |-> "float32", data |-> values],
                         tickers     |-> [r \in 1..Len(snap) |-> snap[r].ticker],
                         color_label |-> color.label,
                         axis_labels |-> Get(axis_labels.result),
                         color_idx   |-> color.idx,
                         reducer_in  |-> [data |-> X_pca, names |-> names]])]

----------------------------------------------------------------------------
(* prepare_frame on the snapshots of loaded datasets                       *)

\* The feature cells of a snapshot row, five kinds. The all-NaN row (4) is
\* what the 'drop' strategy leaves of a row that had a missing cell
\* (clean_data drops it and the index-aligned assignment in load_time_series
\* puts it back as NaN); the row with one missing cell (5) is what a load
\* that raised on its strategy name leaves in self.df.
RowKinds == 5
FrameRow(f, kind) ==
    [c \in 1..f |->
        IF kind = 1 THEN Some(c * Unit)
        ELSE IF kind = 2 THEN Some(0)
        ELSE IF kind = 3 THEN Some((c % 2) * 3 * Unit)
        ELSE IF kind = 4 THEN NaN
        ELSE IF c = 2 THEN NaN ELSE Some(Unit)]

\* The snapshots of 1..MaxPoints rows over 1..MaxFeatures+1 features, the
\* rows listed by kind (the computation does not depend on their order).
FrameSnapshots ==
    UNION {{[r \in 1..n |-> [date |-> 1, ticker |-> r, feats |-> FrameRow(f, kinds[r])]] :
               kinds \in {k \in [1..n -> 1..RowKinds] : \A r \in 1..(n - 1) : k[r] <= k[r + 1]}} :
              n \in 1..MaxPoints, f \in 1..(MaxFeatures + 1)}

ColorChoices == {ColorNone, ColorName("F2"), ColorName("Volume"),
                 ColorIndex(-1), ColorIndex(0), ColorIndex(7)}

\* Feature lists with short and with long names.
LongFeatureNames == <<"Momentum_12M", "Volatility_30D", "Price_To_Earnings_Ratio",
                      "Volume", "Beta", "Yield">>
ColumnLists(f) == {FeatureNames(f), SubSeq(LongFeatureNames, 1, f)}

\* The reports of a PCA fitted to m > 3 columns: two sets of ratios, two
\* orders of the loadings, and NaN ratios (0 / 0) for rows that do not vary.
FitRatios(varies) ==
    {<<Q(7, 10), Q(1, 4), Q(1, 20)>>, <<QInt(1), QInt(0), QInt(0)>>}
        \cup (IF varies THEN {} ELSE {<<NaN, NaN, NaN>>})
FitOrders(m) ==
    {[i \in 1..3 |-> [j \in 1..m |-> ((i + j + o - 2) % m) + 1]] : o \in {0, 1}}
FitReports(m, varies) == {[ratios |-> r, order |-> o] : r \in FitRatios(varies), o \in FitOrders(m)}
NoFit == [ratios |-> <<>>, order |-> <<>>]

\* The calls in which a PCA is fitted when its input is accepted.
FitsPca(f, method, has_umap) == f - 1 > 3 /\ (method = "pca" \/ (method = "umap" /\ ~has_umap))

InitFrame == InitProcessor

PrepareFrameData ==
    /\ IsNone(proc.call)
    /\ \E snap \in FrameSnapshots, method \in MethodNames, choice \in ColorChoices :
        \E cols \in ColumnLists(Len(snap[1].feats)),
           accepts \in IF method \in {"tsne", "umap"} THEN BOOLEAN ELSE {TRUE},
           fit \in IF FitsPca(Len(snap[1].feats), method, proc.has_umap)
                   THEN FitReports(Len(snap[1].feats) - 1,
                                   \E r \in 1..Len(snap) : snap[r].feats # snap[1].feats)
                   ELSE {NoFit} :
          LET r == FrameData(snap, cols, method, 3, choice, proc.has_umap, accepts, fit)
          IN proc' = [proc EXCEPT !.call =
                 Some([op |-> "prepare_frame", snap |-> snap, feature_cols |-> cols,
                       method |-> method, color_feature |-> choice, accepts |-> accepts,
                       fit |-> fit, err |-> r.err, frame |-> r.frame])]
    /\ UNCHANGED <<vizVars, imp, iout, wrap>>

NextFrame ==
    \/ PrepareFrameData
    \/ ProcessorCallerContinues

SpecFrame == InitFrame /\ [][NextFrame]_vars

----------------------------------------------------------------------------
(* Properties of prepare_frame's colour column (SpecFrame)                 *)

FrameCall == IsSome(proc.call) /\ Call.op = "prepare_frame"
Framed == FrameCall /\ Call.err = ""

\* The chosen colour column of the snapshot of the call, as numbers.
ChosenColumn == Column(FeatureMatrix(Call.snap), Get(Call.frame).color_idx)

\* C19: for every non-empty snapshot and every colour choice each value of
\* the Frame is (v - min) / (max - min) of the chosen colour column and lies
\* in [0, 1]; for a constant column every value is 0; no value is NaN.
C19_ColorValuesMinMax ==
    Framed =>
        LET col  == ChosenColumn
            vals == Get(Call.frame).values.data
            N    == Len(col)
        IN /\ Len(vals) = N
           /\ \A k \in 1..N :
                 /\ IsSome(vals[k])
                 /\ ~QLess(vals[k], QInt(0))
                 /\ ~QLess(QInt(1), vals[k])
           /\ IF \A j, k \in 1..N : col[j] = col[k]
              THEN \A k \in 1..N : vals[k] = QInt(0)
              ELSE \E lo, hi \in Range(col) :
                      /\ \A k \in 1..N : ~QLess(col[k], lo) /\ ~QLess(hi, col[k])
                      /\ \A k \in 1..N :
                            vals[k] = QDiv(QSub(col[k], lo), QSub(hi, lo))

\* What the colour choice ch asks of the index idx (from 1) and the label
\* over the features cols of the snapshot snap.
ChoiceSelects(ch, snap, cols, idx) ==
    LET F == Len(cols)
    IN /\ idx \in 1..F
       /\ CASE ch.type = "str" /\ ch.name \in Range(cols) ->
                   cols[idx] = ch.name /\ \A j \in 1..(idx - 1) : cols[j] # ch.name
            [] ch.type = "str" /\ ch.name \notin Range(cols) -> idx = 1
            [] ch.type = "int" -> (ch.index - (idx - 1)) % F = 0
            [] OTHER ->
                   \A d \in 1..F :
                       ~(/\ IsSome(VarTimesN2(snap, d))
                         /\ IsSome(VarTimesN2(snap, idx))
                         /\ Get(VarTimesN2(snap, d)) > Get(VarTimesN2(snap, idx)))

ChoiceLabel(ch, cols, idx) ==
    <<cols[idx],
      IF ch.type = "none" THEN "(auto)"
      ELSE IF ch.type = "str" /\ ch.name \notin Range(cols) THEN "(fallback)"
      ELSE "">>

\* C20: a listed name selects that feature, labelled with its name; an
\* unlisted name selects the first feature, labelled "(fallback)"; an integer
\* k selects index k mod F, within range, labelled with the feature's name;
\* no choice selects a feature no other exceeds in variance, labelled
\* "(auto)". The resolution raises nothing: a call that raises does so in
\* the reducer, on the features left beside the resolved colour column, or
\* in the labels of a PCA that reports NaN variance ratios.
C20_ColorResolution ==
    FrameCall =>
        LET ch   == Call.color_feature
            cols == Call.feature_cols
            snap == Call.snap
        IN IF Call.err = ""
           THEN /\ ChoiceSelects(ch, snap, cols, Get(Call.frame).color_idx)
                /\ Get(Call.frame).color_label
                      = ChoiceLabel(ch, cols, Get(Call.frame).color_idx)
           ELSE \E idx \in 1..Len(cols) :
                   /\ ChoiceSelects(ch, snap, cols, idx)
                   /\ LET red == ReduceDimensionsWithInfo(
                                    MaskColor(FeatureMatrix(snap), idx), Call.method, 3,
                                    Some(Without(cols, idx)), proc.has_umap, Call.accepts)
                      IN IF red.err # "" THEN Call.err = red.err
                         ELSE /\ Call.err = "ValueError"
                              /\ Call.method = "pca"
                              /\ NaN \in Range(Call.fit.ratios)

\* The index -1 over four features chose the last one, F4.
C20_Witness ==
    /\ Framed
    /\ Call.color_feature = ColorIndex(-1)
    /\ Len(Call.feature_cols) = 4
    /\ Get(Call.frame).color_idx = 4
    /\ Get(Call.frame).color_label = <<"F4", "">>

----------------------------------------------------------------------------
(* Properties of prepare_frame's reducer input, labels and shape           *)
(* (SpecFrame)                                                             *)

\* Column c of the feature matrix is column Shifted(c, idx) of what is left
\* when column idx is taken out.
Shifted(c, idx) == IF c < idx THEN c ELSE c - 1

\* C21: the matrix passed to the reducer holds exactly the F-1 feature
\* columns other than the resolved colour column, in their original order,
\* with the feature names less the same entry; the positions are what the
\* reducer and the normalizer make of that matrix alone.
C21_ColorExcludedFromReduction ==
    Framed =>
        LET fr   == Get(Call.frame)
            X    == FeatureMatrix(Call.snap)
            cols == Call.feature_cols
            F    == Len(cols)
            idx  == fr.color_idx
            Xin  == fr.reducer_in.data
            nin  == fr.reducer_in.names
            red  == ReduceDimensionsWithInfo(Xin, Call.method, 3, Some(nin),
                                             proc.has_umap, Call.accepts)
        IN /\ Xin.n = X.n /\ Xin.f = F - 1 /\ Len(nin) = F - 1
           /\ \A c \in (1..F) \ {idx} :
                 /\ Column(Xin, Shifted(c, idx)) = Column(X, c)
                 /\ nin[Shifted(c, idx)] = cols[c]
           /\ red.err = ""
           /\ fr.positions.data
                 = Get(NormalizePositions(Get(red.result).positions, 10).result)

\* Colour F2 of four features: F1, F3, F4 went to the reducer.
C21_Witness ==
    /\ Framed
    /\ Call.color_feature = ColorName("F2")
    /\ Len(Call.feature_cols) = 4
    /\ Get(Call.frame).reducer_in.names = <<"F1", "F3", "F4">>
    /\ Get(Call.frame).reducer_in.data.f = 3
    /\ Column(Get(Call.frame).reducer_in.data, 2) = Column(FeatureMatrix(Call.snap), 3)
    /\ Column(FeatureMatrix(Call.snap), 2) # Column(FeatureMatrix(Call.snap), 3)

\* The names the reducer reported as contributors of axis i and the variance
\* share in percent: feature i mod F and a third without a fit, else the
\* fitted PCA's first loadings and ratio.
Contributors(i) ==
    LET names == Get(Call.frame).reducer_in.names
    IN IF Len(names) <= 3 THEN <<names[((i - 1) % Len(names)) + 1]>>
       ELSE <<names[Call.fit.order[i][1]], names[Call.fit.order[i][2]]>>

VariancePercent(i) ==
    IF Len(Get(Call.frame).reducer_in.names) <= 3 THEN 33
    ELSE CHOOSE p \in 0..100 :
            /\ p * Den(Call.fit.ratios[i]) <= 100 * Num(Call.fit.ratios[i])
            /\ (p + 1) * Den(Call.fit.ratios[i]) > 100 * Num(Call.fit.ratios[i])

\* C22: a Frame has exactly three axis labels, numbered 1..3: for pca
\* "PC<i> (<variance%>) -> <features>", features being the first two
\* contributing names joined by ", ", cut to its first 17 characters and
\* "..." when longer than 20; "t-SNE <i>" for tsne, "UMAP <i>" for umap,
\* "Axis <i>" for any other method.
C22_AxisLabels ==
    Framed =>
        LET labels == Get(Call.frame).axis_labels
        IN /\ Len(labels) = 3
           /\ \A i \in 1..3 :
                 LET c    == Contributors(i)
                     text == IF Len(c) = 1 THEN c[1] ELSE c[1] \o ", " \o c[2]
                     cut  == IF Len(text) > 20 THEN SubSeq(text, 1, 17) \o "..." ELSE text
                 IN CASE Call.method = "pca" ->
                             /\ labels[i] = "PC" \o ToString(i) \o " ("
                                               \o ToString(VariancePercent(i)) \o "%) -> " \o cut
                             /\ Len(cut) <= 20
                      [] Call.method = "tsne" -> labels[i] = "t-SNE " \o ToString(i)
                      [] Call.method = "umap" -> labels[i] = "UMAP " \o ToString(i)
                      [] OTHER -> labels[i] = "Axis " \o ToString(i)

\* A fitted PCA whose first axis is led by Momentum_12M and Volatility_30D
\* with 70% of the variance: 28 characters of names, cut to 20.
C22_Witness ==
    /\ Framed
    /\ Call.method = "pca"
    /\ Get(Call.frame).axis_labels[1] = "PC1 (70%) -> Momentum_12M, Vol..."
    /\ Get(Call.frame).axis_labels[2] = "PC2 (25%) -> Volatility_30D, P..."

\* C23: for every dataset with at least one feature column, every timestamp
\* with N >= 1 rows, every method among pca, tsne, umap and every colour
\* choice, prepare_frame returns a Frame with N x 3 positions, N values and
\* the N entity ids in the snapshot's row order, and the four labels. (Stated
\* for snapshots without a missing cell and estimators that accept the
\* number of rows.)
C23_FrameForEverySnapshot ==
    (/\ FrameCall
     /\ Call.method \in {"pca", "tsne", "umap"}
     /\ Call.accepts
     /\ \A r \in 1..Len(Call.snap) : ~HasNaN(Call.snap[r].feats))
    => /\ Call.err = ""
       /\ LET fr == Get(Call.frame)
              N  == Len(Call.snap)
          IN /\ fr.positions.data.n = N /\ fr.positions.data.f = 3
             /\ Len(fr.values.data) = N
             /\ fr.tickers = [r \in 1..N |-> Call.snap[r].ticker]
             /\ Len(fr.axis_labels) = 3
             /\ Len(fr.color_label) = 2

----------------------------------------------------------------------------
(* Properties of the animation loop (checked under Spec)                   *)

\* The distinct timestamps of the loaded dataset within [start, end], in
\* ascending order.
InRange == SortedSeqOf({d \in DatesOf(vdf) : anim.start <= d /\ d <= anim.end})
Pairs == IF Len(InRange) < 2 THEN 0 ELSE Len(InRange) - 1

\* C24: with the timestamps d_0 < ... < d_k of the dataset within
\* [start, end], run_morph_animation (with a renderer) performs exactly k
\* iterations, none for fewer than two timestamps, the i-th on the pair
\* (d_i, d_i+1), each pair once and in ascending order, and then ends.
C24_OneIterationPerPair ==
    (op = "run_morph_animation" /\ engine # "none") =>
        /\ Len(trace) <= Pairs
        /\ \A k \in 1..Len(trace) :
              trace[k].t_curr = InRange[k] /\ trace[k].t_next = InRange[k + 1]
        /\ ~anim.running => (Len(trace) = Pairs /\ verr = "")

\* An iteration is skipped when a frame is empty or no entity id is common.
Skipped(e) == ~BothFrames(e) \/ CommonIds(e) = {}

\* C25: in every iteration that is not skipped the renderer receives one
\* set_points_raw call with rows of the current frame, then one
\* set_target_points call with rows of the next frame, then at most one
\* set_dimension_labels call with the current frame's colour label and
\* three axis labels, and that only on a renderer that provides it; a
\* skipped iteration calls nothing, and the calls of the iterations follow
\* the order of the iterations.
C25_RendererCallsPerIteration ==
    /\ \A k \in MorphEntries :
          LET e == trace[k]
          IN IF e.err # "" \/ Skipped(e) THEN e.calls = <<>>
             ELSE /\ Len(e.calls) \in {2, 3}
                  /\ e.calls[1].fn = "set_points_raw"
                  /\ SentDates(e.calls[1].positions) \cup SentDates(e.calls[1].values)
                        = {e.t_curr}
                  /\ e.calls[2].fn = "set_target_points"
                  /\ SentDates(e.calls[2].positions) \cup SentDates(e.calls[2].values)
                        = {e.t_next}
                  /\ Len(e.calls) = 3 <=> engine = "labels"
                  /\ Len(e.calls) = 3 =>
                        /\ e.calls[3].fn = "set_dimension_labels"
                        /\ e.calls[3].labels = Get(e.frames[1]).labels
                        /\ Len(e.calls[3].labels.color) = 2
                        /\ Len(e.calls[3].labels.axes) = 3
    /\ \A j \in MorphEntries, k \in MorphEntries :
          j < k => trace[j].t_next <= trace[k].t_curr

\* Two iterations in a row reached a renderer that takes labels.
C25_Witness ==
    /\ op = "run_morph_animation" /\ engine = "labels"
    /\ Len(trace) = 2
    /\ Len(trace[1].calls) = 3 /\ Len(trace[2].calls) = 3
    /\ trace[1].calls[3].labels = Get(trace[1].frames[1]).labels

\* The prepare_frame calls of the current run for the timestamp d: the
\* iteration and the position within it.
PreparedFor(d) ==
    {x \in (1..Len(trace)) \X (1..2) :
        x[2] <= Len(trace[x[1]].prepared) /\ trace[x[1]].prepared[x[2]] = d}

\* C27: during one run of run_morph_animation prepare_frame is invoked at
\* most once per timestamp, and the rows sent as the target of one step are
\* the rows sent as the current cloud of the next step.
C27_FrameBuiltOnce ==
    op = "run_morph_animation" =>
        /\ \A d \in Dates : Cardinality(PreparedFor(d)) <= 1
        /\ \A k \in 1..(Len(trace) - 1) :
              (trace[k].calls # <<>> /\ trace[k + 1].calls # <<>>)
                 => SentIds(trace[k].calls[2].positions)
                       = SentIds(trace[k + 1].calls[1].positions)

----------------------------------------------------------------------------
(* Column resolution over repeated fits (checked under SpecImputer)        *)

\* C26: for an imputer created without a column list, after every
\* successful fit, a second or later one included, the target columns are
\* exactly the numeric columns of the dataset passed to that fit.
C26_ColumnsResolvedAtEachFit ==
    (After("fit") /\ Out.err = "" /\ IsNone(imp.given))
        => (IsSome(imp.columns) /\ Get(imp.columns) = NumericColumns(Out.input))

----------------------------------------------------------------------------
(* QsPlotWrapper (wrapper.py). The wrapper is [is_running, called: the     *)
(* calls made on it, forwarded: the calls it made on its renderer]; the    *)
(* renderer's own calls return.                                            *)

MaxCalls == 5

\* QsPlotWrapper.__init__
NewWrapper == [is_running |-> FALSE, called |-> <<>>, forwarded |-> <<>>]

\* start() forwarding whether or not the wrapper is running.
StartNoGuard(w) ==
    [w EXCEPT !.forwarded = Append(w.forwarded, "start"), !.is_running = TRUE]

\* QsPlotWrapper.start
StartOutcome(w) ==
    IF ~w.is_running
    THEN [w EXCEPT !.forwarded = Append(w.forwarded, "start"), !.is_running = TRUE]
    ELSE w

\* QsPlotWrapper.stop
StopOutcome(w) ==
    IF w.is_running
    THEN [w EXCEPT !.forwarded = Append(w.forwarded, "stop"), !.is_running = FALSE]
    ELSE w

\* QsPlotWrapper.load_dataset on N x m data: ValueError for 'raw' / 'none'
\* on other than three columns and for an unknown method, else the points are
\* uploaded with set_points.
LoadDatasetError(method, m) ==
    IF method = "pca" THEN ""
    ELSE IF method \in {"raw", "none"} THEN (IF m # 3 THEN "ValueError" ELSE "")
    ELSE "ValueError"

LoadDatasetOutcome(w, method, m) ==
    IF LoadDatasetError(method, m) # "" THEN w
    ELSE [w EXCEPT !.forwarded = Append(w.forwarded, "set_points")]

WrapperMethods == {"pca", "raw", "none", "tsne"}
WrapperWidths == {3, 4}

InitWrapper ==
    /\ engine = "none"
    /\ vdf = None
    /\ vcfg = None
    /\ rowsUsed = 0
    /\ op = "idle"
    /\ verr = ""
    /\ ret = None
    /\ anim = Idle
    /\ trace = <<>>
    /\ imp = ImpIdle
    /\ iout = None
    /\ proc = None
    /\ wrap = NewWrapper

WrapperStart ==
    /\ Len(wrap.called) < MaxCalls
    /\ wrap' = [StartOutcome(wrap) EXCEPT !.called = Append(wrap.called, "start")]
    /\ UNCHANGED <<vizVars, imp, iout, proc>>

WrapperStop ==
    /\ Len(wrap.called) < MaxCalls
    /\ wrap' = [StopOutcome(wrap) EXCEPT !.called = Append(wrap.called, "stop")]
    /\ UNCHANGED <<vizVars, imp, iout, proc>>

WrapperLoadDataset ==
    /\ Len(wrap.called) < MaxCalls
    /\ \E method \in WrapperMethods, m \in WrapperWidths :
          wrap' = [LoadDatasetOutcome(wrap, method, m) EXCEPT
                      !.called = Append(wrap.called, "load_dataset")]
    /\ UNCHANGED <<vizVars, imp, iout, proc>>

NextWrapper ==
    \/ WrapperStart
    \/ WrapperStop
    \/ WrapperLoadDataset

SpecWrapper == InitWrapper /\ [][NextWrapper]_vars

----------------------------------------------------------------------------
(* Properties of the wrapper (checked under SpecWrapper)                   *)

IsLifecycle(c) == c \in {"start", "stop"}
Lifecycle(w) == SelectSeq(w.forwarded, IsLifecycle)

\* C28: after any sequence of start() and stop() calls the calls forwarded
\* to the renderer alternate start, stop, start, ..., beginning with start;
\* start() while running and stop() while not running forward nothing;
\* is_running holds exactly when the last forwarded call was start.
C28_StartStopAlternate ==
    [][LET life == Lifecycle(wrap')
       IN /\ \A k \in 1..Len(life) : life[k] = (IF k % 2 = 1 THEN "start" ELSE "stop")
          /\ wrap'.is_running = (life # <<>> /\ life[Len(life)] = "start")
          /\ (wrap'.called = Append(wrap.called, "start") /\ wrap.is_running)
                => wrap'.forwarded = wrap.forwarded
          /\ (wrap'.called = Append(wrap.called, "stop") /\ ~wrap.is_running)
                => wrap'.forwarded = wrap.forwarded
      ]_vars

\* start, start, stop, stop, start: three calls were forwarded.
C28_Witness ==
    /\ wrap.called = <<"start", "start", "stop", "stop", "start">>
    /\ wrap.forwarded = <<"start", "stop", "start">>
    /\ wrap.is_running

====
